---- MODULE Spec2Model ----
(***************************************************************************)
(* Vault Mind collection control plane: the persistent job queue           *)
(* (services/job_queue.py), the collection manager and its job handlers    *)
(* (services/collection_manager.py), the background vault indexing runs    *)
(* (services/vault_service.py), the vector namespaces they share           *)
(* (database/vault_database.py, database/providers/chromadb.py), the file  *)
(* watcher (services/file_change_service.py) and the two websocket         *)
(* connection managers (api/websocket.py, api/routes/collections_ws.py).   *)
(*                                                                         *)
(* One action is one run of a coroutine between two points where it is     *)
(* suspended (an await that reaches the event loop).  The sqlite calls and *)
(* the chromadb client calls are synchronous and never separate two steps. *)
(* update_job_progress suspends only while it sends to a websocket client  *)
(* of the collection; outside SpecProgress no such client is connected, so *)
(* a handler is suspended in asyncio.sleep only.                           *)
(*                                                                         *)
(* Spec is the whole control plane.  SpecQueue is the job queue on its own *)
(* with handlers that only report, return or raise; SpecQueueFair adds the *)
(* scheduling of the event loop; SpecStatusArg adds callers that pass a    *)
(* status to update_job_progress; SpecRestart starts the queue over the    *)
(* jobs table of a previous process; SpecExpiry lets tokens expire.        *)
(* SpecTokens is the deletion protocol with its confirmation tokens and    *)
(* SpecCreate the creation of collections from raw request names and       *)
(* paths.  SpecWatch is the file watcher with its debouncing,              *)
(* SpecWatchJobs the watcher next to the indexing of the watched           *)
(* collection,                                                             *)
(* SpecChannels the websocket channels of api/websocket.py and             *)
(* SpecProgress the progress websockets of a collection with the handlers  *)
(* that publish to them; SpecStall adds clients that stop reading.         *)
(* SpecRun is one run of a create or reindex handler with the percentages  *)
(* it publishes.  SpecSearch is the two search functions over one          *)
(* namespace, SpecChunk the chunker with the chunk ids of index and update *)
(* runs, SpecTrack the FileChangeTracker over one vault directory.         *)
(* SpecCrash kills the process in the middle of its jobs and starts it     *)
(* again, SpecIncremental updates an indexed collection incrementally and  *)
(* SpecPriority is the dispatcher over jobs of different priorities.       *)
(* SpecSize is the size estimate of a collection, SpecPeriodic the         *)
(* periodic scan of the watched vaults and SpecScan scan_vault_changes     *)
(* over several vaults.  SpecStopFair stops and starts the queue processor *)
(* again, and SpecIds is the chunk ids of the markdown files of one vault. *)
(***************************************************************************)
EXTENDS Naturals, Integers, Sequences, FiniteSets, TLC

----------------------------------------------------------------------------
(* Bounds of the model *)

\* jobs ever inserted into the jobs table when the queue is driven directly
MaxJobs == 4
\* jobs ever inserted into the jobs table by the collection manager
MaxManagerJobs == 3
\* pause_job calls that succeed
MaxPauses == 1
\* jobs created when update_job_progress is also called with a status
MaxStatusJobs == 2
\* executions a job has had when update_job_progress is called with a status
MaxRuns == 2
\* rows of the jobs table that a previous process left behind
MaxLeftover == 2
\* markdown files a vault holds when it is indexed
MaxDocs == 1
\* confirmation tokens ever issued
MaxTokens == 1
\* confirmation tokens ever issued when tokens are observed past their expiry
MaxTokenCalls == 2
\* the callbacks registered with the file watcher
MaxCallbacks == 2
\* the events waiting in the watcher's queue
MaxQueued == 2
\* the seconds that pass while the watcher is observed
MaxTime == 4
\* the documents of a searched namespace
MaxHits == 3
\* the largest limit of a search
MaxLimit == 2
\* the characters of an indexed file
MaxText == 5
\* the index and update runs over one file
MaxIndexRuns == 2
\* the times the process is killed and started again
MaxRestarts == 1
\* the markdown files of a vault that is updated incrementally
MaxVaultFiles == 3
\* the incremental updates of one vault
MaxUpdates == 2
\* the scan_vault calls of one tracker
MaxScans == 3
\* the largest document count passed to _calculate_collection_size or reported
\* by the store
MaxCount == 10
\* the minutes that pass while the periodic scan is observed
MaxMinutes == 8
\* jobs ever created while the processor is stopped and started again
MaxStopJobs == 3
\* websocket connections ever accepted
MaxConns == 2
\* events published to the websocket channels
MaxWsEvents == 1
\* websockets ever connected to the progress of a collection
MaxSockets == 2
\* progress updates published to them
MaxMessages == 2
\* jobs created while progress updates are observed
MaxProgressJobs == 2
\* markdown files of the vault whose indexing progress is followed
MaxFiles == 4
\* progress updates that one handler run publishes while its vault run is going on
MaxPublished == 5
\* collection names in use: the first NumNames entries of NameList
NumNames == 2

(* Program constants *)
\* VaultWatchConfig.check_interval: 300 seconds, in minutes (_periodic_scan
\* sleeps 60 seconds between two passes)
check_interval == 5

\* VaultService.setup_incremental_updates passes debounce_delay=2.0
debounce_delay == 2

\* JobQueue.__init__(max_concurrent_jobs=3); CollectionManager uses JobQueue()
max_concurrent_jobs == 3
\* _calculate_collection_size: estimated_size_per_doc
estimated_size_per_doc == 2048

----------------------------------------------------------------------------
(* JobStatus, job types *)

PENDING == "pending"
QUEUED == "queued"
RUNNING == "running"
PAUSED == "paused"
COMPLETED == "completed"
FAILED == "failed"
CANCELLED == "cancelled"

JobStatus == {PENDING, QUEUED, RUNNING, PAUSED, COMPLETED, FAILED, CANCELLED}
Terminal == {COMPLETED, FAILED, CANCELLED}
ActiveStatus == {PENDING, QUEUED, RUNNING, PAUSED}

CREATE_JOB == "create_collection"
REINDEX_JOB == "reindex_collection"
DELETE_JOB == "delete_collection"
JobTypes == {CREATE_JOB, REINDEX_JOB, DELETE_JOB}

----------------------------------------------------------------------------
(* Collection names and vector namespaces.  A name is its sequence of      *)
(* characters, so that the sanitising of vault names is computed.          *)

NameList ==
    << <<"a", "b", "c">>,
       <<"v", "a", "u", "l", "t", "_", "a", "b", "c">>,
       <<"A", "b", "c">> >>

Names == {NameList[i] : i \in 1..NumNames}

UpperCase ==
    <<"A", "B", "C", "D", "E", "F", "G", "H", "I", "J", "K", "L", "M",
      "N", "O", "P", "Q", "R", "S", "T", "U", "V", "W", "X", "Y", "Z">>
LowerCase ==
    <<"a", "b", "c", "d", "e", "f", "g", "h", "i", "j", "k", "l", "m",
      "n", "o", "p", "q", "r", "s", "t", "u", "v", "w", "x", "y", "z">>
Digits == {"0", "1", "2", "3", "4", "5", "6", "7", "8", "9"}

\* str.lower() on one character
Lower(c) ==
    IF \E i \in 1..26 : UpperCase[i] = c
    THEN LowerCase[CHOOSE i \in 1..26 : UpperCase[i] = c]
    ELSE c

\* the characters that [^a-zA-Z0-9_] leaves alone
IsWordChar(c) ==
    \/ \E i \in 1..26 : c \in {UpperCase[i], LowerCase[i]}
    \/ c \in Digits
    \/ c = "_"

\* VaultDatabase._sanitize_vault_name
\*   re.sub(r'[^a-zA-Z0-9_]', '_', vault_name.lower().replace(' ', '_'))
\*   return f"vault_{sanitized}"
_sanitize_vault_name(n) ==
    <<"v", "a", "u", "l", "t", "_">> \o
    [i \in 1..Len(n) |->
        LET c == Lower(n[i])
            d == IF c = " " THEN "_" ELSE c
        IN IF IsWordChar(d) THEN d ELSE "_"]

\* the namespace ChromaDBProvider uses for a collection: the name itself
ProviderNs(n) == n

Namespaces == {ProviderNs(n) : n \in Names} \cup {_sanitize_vault_name(n) : n \in Names}

----------------------------------------------------------------------------
VARIABLES
    jobs,           \* jobs table of jobs.db: a sequence of rows, index = job id
    active_jobs,    \* JobQueue.active_jobs: job id -> the Job object in the map
    running_tasks,  \* JobQueue.running_tasks: ids that have an entry
    dispatches,     \* job id -> executions started for it so far
    tasks,          \* worker tasks (_execute_job) and the vault runs they started
    pauses,         \* pause_job calls that succeeded so far
    processor,      \* _queue_processor_task is set and not done
    collections,    \* collections table of collections_metadata.db
    tokens,         \* CollectionManager._confirmation_tokens
    chroma,         \* vector namespaces of the shared chromadb client
    event_queue,    \* FileChangeService.event_queue
    debounced_events, \* FileChangeService.debounced_events: file -> latest event
    event_callbacks,  \* FileChangeService.event_callbacks: the vault of each callback
    running,        \* FileChangeService.running
    now,            \* time.time(), in units of one second
    last_cleanup,   \* when _cleanup_debounced_events last went to sleep
    updates,        \* the incremental_update calls made so far
    ws_connections, \* api/websocket.py: the state of every connection id
    ws_channels,    \* ConnectionManager.channels: channel -> subscribers
    ws_inbox,       \* the events sent to each connection, in order
    ws_events,      \* the events published so far
    ws_broadcast,   \* the handle_progress_event coroutine in progress
    cws_sockets,    \* api/routes/collections_ws.py: the state of every websocket
    cws_connections, \* ConnectionManager.active_connections[collection_name]
    cws_inbox,      \* the progress updates sent to each websocket, in order
    cws_sends,      \* the send_to_collection coroutines in progress
    cws_published,  \* the tasks that published the progress updates so far
    run_handler,    \* one run of a create or reindex handler, seen on its own
    run_vault,      \* the IndexingJob of the vault run that it started
    run_published,  \* the progress_percentage values it published, in order
    search_index,   \* the searched namespace: doc -> distance to the query, tags
    search_prev,    \* the search before the last one, since the index changed
    search_last,    \* the last search_vault or search_collection call
    chunk_setup,    \* the indexed file and the parameters of the TextChunker
    chunk_runs,     \* the index and update runs over that file, their chunk ids
    restarts,       \* the times the process was killed and started again
    interrupted,    \* the jobs that were running when the process was killed
    inc_index,      \* the files of the vault namespace once an update changed it
    inc_updates,    \* the incremental_update calls that returned
    vault_fs,       \* the files of the vault directory: path -> content or 0
    _file_states,   \* FileChangeTracker._file_states: path -> file info
    scans,          \* the scan_vault calls made so far
    scan_fs,        \* the files of the vault when scan_vault was last called
    scan_changes,   \* what the last scan_vault call returned
    size_call,      \* the last _calculate_collection_size call and its answer
    watch_configs,  \* FileChangeService.vault_configs, in the order of insertion
    minutes,        \* time.time(), in units of one minute
    last_scan_time, \* FileChangeService.stats['last_scan_time'], -1 for None
    tracker_states, \* _file_states of the one FileChangeTracker of the service
    state_files,    \* the <vault_name>_state.json files of the state directory
    disks,          \* the files of every watched vault directory
    scanned_at,     \* when each vault was last scanned, or has been watched since
    scan_report,    \* the vault and the result of the last scan_vault_changes call
    _shutdown_event, \* JobQueue._shutdown_event is set
    markdown_files, \* the *.md files under the vault directory, by path
    all_ids         \* the chunk ids handed to the collection, each with its chunk

queueVars == <<jobs, active_jobs, running_tasks, dispatches, tasks, pauses, processor>>
managerVars == <<collections, tokens, chroma>>
watchVars == <<event_queue, debounced_events, event_callbacks, running, now,
              last_cleanup, updates>>
wsVars == <<ws_connections, ws_channels, ws_inbox, ws_events, ws_broadcast>>
cwsVars == <<cws_sockets, cws_connections, cws_inbox, cws_sends, cws_published>>
runVars == <<run_handler, run_vault, run_published>>
searchVars == <<search_index, search_prev, search_last>>
chunkVars == <<chunk_setup, chunk_runs>>
crashVars == <<restarts, interrupted>>
incVars == <<inc_index, inc_updates>>
trackVars == <<vault_fs, _file_states, scans, scan_fs, scan_changes>>
sizeVars == <<size_call>>
scanVars == <<watch_configs, minutes, last_scan_time, tracker_states,
             state_files, disks, scanned_at, scan_report>>
stopVars == <<_shutdown_event>>
idVars == <<markdown_files, all_ids>>
serviceVars == <<watchVars, wsVars, cwsVars, runVars, searchVars, chunkVars,
                 crashVars, incVars, trackVars, sizeVars, scanVars, stopVars,
                 idVars>>
outsideWatcher == <<queueVars, managerVars, wsVars, cwsVars, runVars,
                    searchVars, chunkVars, crashVars, incVars, trackVars,
                    sizeVars, scanVars, stopVars, idVars>>
outsideWs == <<queueVars, managerVars, watchVars, cwsVars, runVars,
               searchVars, chunkVars, crashVars, incVars, trackVars, sizeVars,
               scanVars, stopVars, idVars>>
outsideCws == <<queueVars, managerVars, watchVars, wsVars, runVars,
                searchVars, chunkVars, crashVars, incVars, trackVars,
                sizeVars, scanVars, stopVars, idVars>>
outsideRun == <<queueVars, managerVars, watchVars, wsVars, cwsVars,
                searchVars, chunkVars, crashVars, incVars, trackVars,
                sizeVars, scanVars, stopVars, idVars>>
outsideSearch == <<queueVars, managerVars, watchVars, wsVars, cwsVars,
                   runVars, chunkVars, crashVars, incVars, trackVars,
                   sizeVars, scanVars, stopVars, idVars>>
outsideChunk == <<queueVars, managerVars, watchVars, wsVars, cwsVars, runVars,
                  searchVars, crashVars, incVars, trackVars, sizeVars,
                  scanVars, stopVars, idVars>>
outsideCrash == <<queueVars, managerVars, watchVars, wsVars, cwsVars, runVars,
                  searchVars, chunkVars, incVars, trackVars, sizeVars,
                  scanVars, stopVars, idVars>>
outsideInc == <<queueVars, managerVars, watchVars, wsVars, cwsVars, runVars,
                searchVars, chunkVars, crashVars, trackVars, sizeVars,
                scanVars, stopVars, idVars>>
outsideTrack == <<queueVars, managerVars, watchVars, wsVars, cwsVars, runVars,
                  searchVars, chunkVars, crashVars, incVars, sizeVars,
                  scanVars, stopVars, idVars>>
outsideSize == <<queueVars, managerVars, watchVars, wsVars, cwsVars, runVars,
                 searchVars, chunkVars, crashVars, incVars, trackVars,
                 scanVars, stopVars, idVars>>
outsideScan == <<queueVars, managerVars, watchVars, wsVars, cwsVars, runVars,
                 searchVars, chunkVars, crashVars, incVars, trackVars,
                 sizeVars, stopVars, idVars>>
outsideStop == <<queueVars, managerVars, watchVars, wsVars, cwsVars, runVars,
                 searchVars, chunkVars, crashVars, incVars, trackVars,
                 sizeVars, scanVars, idVars>>
outsideIds == <<queueVars, managerVars, watchVars, wsVars, cwsVars, runVars,
                searchVars, chunkVars, crashVars, incVars, trackVars,
                sizeVars, scanVars, stopVars>>

vars == <<jobs, active_jobs, running_tasks, dispatches, tasks, pauses, processor,
          collections, tokens, chroma, serviceVars>>

JobIds == 1..Len(jobs)

NoJob == [status |-> "absent", completed_at |-> FALSE]
NoRow == [status |-> "absent"]
\* a namespace that does not exist; an existing one records the run that created
\* it (<<0, 0>>: ChromaDBProvider.create_collection) and the chunks it holds
NoNs == [count |-> -1, owner |-> <<0, 0>>]
NsExists(s) == chroma[s].count >= 0

InMemory(j) == active_jobs[j].status # "absent"

----------------------------------------------------------------------------
(* Pure helpers *)

\* ORDER BY priority DESC, created_at ASC (ids are handed out in creation order)
Before(k, j) ==
    \/ jobs[k].priority > jobs[j].priority
    \/ jobs[k].priority = jobs[j].priority /\ k < j

\* a selection that takes the rows resume_job re-queued and no pending row
_get_next_jobs_queued_only(limit) ==
    LET waiting == {j \in JobIds : jobs[j].status \in {QUEUED}}
    IN {j \in waiting : Cardinality({k \in waiting : Before(k, j)}) < limit}

\* a selection by created_at alone
_get_next_jobs_oldest_first(limit) ==
    LET waiting == {j \in JobIds : jobs[j].status \in {PENDING, QUEUED}}
    IN {j \in waiting : Cardinality({k \in waiting : k < j}) < limit}

\* _get_next_jobs: SELECT ... WHERE status IN ('pending','queued')
\*   ORDER BY priority DESC, created_at ASC LIMIT ?
_get_next_jobs(limit) ==
    LET waiting == {j \in JobIds : jobs[j].status \in {PENDING, QUEUED}}
    IN {j \in waiting : Cardinality({k \in waiting : Before(k, j)}) < limit}

RunningCount == Cardinality({j \in JobIds : active_jobs[j].status = RUNNING})

\* get_active_job_for_collection: the first job of active_jobs (insertion order
\* is creation order) for the collection whose status is active; 0 if none
get_active_job_for_collection(n) ==
    LET act == {j \in JobIds : /\ InMemory(j)
                               /\ jobs[j].collection_name = n
                               /\ active_jobs[j].status \in ActiveStatus}
    IN IF act = {} THEN 0 ELSE CHOOSE j \in act : \A k \in act : j <= k

\* get_queue_stats()["available_slots"]
available_slots ==
    IF max_concurrent_jobs > RunningCount THEN max_concurrent_jobs - RunningCount ELSE 0

IsCurrent(t) == t.run = dispatches[t.job]

\* the vault run that the handler of task t started has not ended
VaultRunActive(t) == t.vstatus \in {"queued", "running"}

----------------------------------------------------------------------------
(* Files of a watched vault and the events of the watcher *)

Files == {"note.md"}
EventTypes == {"created", "modified", "deleted"}
NoEvent == [file_path |-> "", event_type |-> "none", timestamp |-> 0]

\* connection ids of api/websocket.py; a set iterates in the order of its
\* hash table, which the order of the ids stands for
Conns == 1..MaxConns

\* the channels that handle_progress_event broadcasts an event to, in order:
\* "events", "job:<job_id>", "vault:<vault_name>"
ChannelList == <<"events", "job", "vault">>
Channels == {ChannelList[i] : i \in 1..Len(ChannelList)}

NoBroadcast == [event |-> 0, channel |-> 0, pos |-> 0, used |-> 0, stale |-> FALSE]

\* the websockets of api/routes/collections_ws.py
Sockets == 1..MaxSockets

\* no handler is being followed; IndexingJob.__init__
NoHandler == [job_type |-> "none", pc |-> "idle"]
NoVaultJob == [status |-> "queued", files_processed |-> 0, total_files |-> 0,
               progress_percent |-> 0]

\* the documents a searched namespace can hold
Hits == 1..MaxHits
\* distances of a document to the query, in tenths
Distances == {0, 5, 12}
\* similarity thresholds of a search, in tenths (the routes accept 0.0 to 1.0)
Thresholds == {0, 5, 8}
NoDocument == [distance |-> -1, tagged |-> FALSE]
NoSearch == [kind |-> "none"]
NoSetup == [stem |-> ""]
NoView == {0}
\* the paths of a vault, as directories and a file name with its suffix
TrackPathList ==
    << [dirs |-> <<>>, stem |-> "a", suffix |-> ".md"],
       [dirs |-> <<"notes">>, stem |-> "b", suffix |-> ".txt"],
       [dirs |-> <<".obsidian">>, stem |-> "c", suffix |-> ".md"],
       [dirs |-> <<"notes", ".trash">>, stem |-> "d", suffix |-> ".md"] >>
TrackPaths == {TrackPathList[i] : i \in 1..Len(TrackPathList)}
NoChanges == [added |-> {}, modified |-> {}, deleted |-> {}]
NoSizeCall == [document_count |-> -1]
NoMarkdown == [exists |-> FALSE, content |-> <<>>]
\* markdown files of one vault: two have the same name in different directories
IdPaths ==
    { [dirs |-> <<>>, stem |-> "note", suffix |-> ".md"],
      [dirs |-> <<"notes">>, stem |-> "note", suffix |-> ".md"],
      [dirs |-> <<"notes">>, stem |-> "todo", suffix |-> ".md"] }
NoStateFile == [exists |-> FALSE, file_states |-> <<>>]
NoReport == [vault_name |-> <<>>, changes |-> NoChanges]

\* FileChangeService.__init__: nothing queued, nothing watched;
\* ConnectionManager.__init__ (both of them): no connection, no channel
InitServices ==
    /\ event_queue = <<>>
    /\ debounced_events = [f \in Files |-> NoEvent]
    /\ event_callbacks = <<>>
    /\ running = FALSE
    /\ now = 0
    /\ last_cleanup = 0
    /\ updates = <<>>
    /\ ws_connections = [c \in Conns |-> "unused"]
    /\ ws_channels = [ch \in Channels |-> {}]
    /\ ws_inbox = [c \in Conns |-> <<>>]
    /\ ws_events = <<>>
    /\ ws_broadcast = NoBroadcast
    /\ cws_sockets = [w \in Sockets |-> "unused"]
    /\ cws_connections = <<>>
    /\ cws_inbox = [w \in Sockets |-> <<>>]
    /\ cws_sends = {}
    /\ cws_published = <<>>
    /\ run_handler = NoHandler
    /\ run_vault = NoVaultJob
    /\ run_published = <<>>
    /\ search_index = [d \in Hits |-> NoDocument]
    /\ search_prev = NoSearch
    /\ search_last = NoSearch
    /\ chunk_setup = NoSetup
    /\ chunk_runs = <<>>
    /\ restarts = 0
    /\ interrupted = {}
    /\ inc_index = NoView
    /\ inc_updates = <<>>
    /\ vault_fs = [p \in TrackPaths |-> 0]
    /\ _file_states = <<>>
    /\ scans = 0
    /\ scan_fs = [p \in TrackPaths |-> 0]
    /\ scan_changes = NoChanges
    /\ size_call = NoSizeCall
    /\ watch_configs = <<>>
    /\ minutes = 0
    /\ last_scan_time = -1
    /\ tracker_states = <<>>
    /\ state_files = [v \in Names |-> NoStateFile]
    /\ disks = [v \in Names |-> [p \in TrackPaths |-> 0]]
    /\ scanned_at = [v \in Names |-> 0]
    /\ scan_report = NoReport
    /\ _shutdown_event = FALSE
    /\ markdown_files = [p \in IdPaths |-> NoMarkdown]
    /\ all_ids = {}

----------------------------------------------------------------------------
Init ==
    /\ jobs = <<>>
    /\ active_jobs = <<>>
    /\ running_tasks = {}
    /\ dispatches = <<>>
    /\ tasks = {}
    /\ pauses = 0
    /\ processor = FALSE
    /\ collections = [n \in Names |-> NoRow]
    /\ tokens = <<>>
    /\ chroma = [s \in Namespaces |-> NoNs]
    /\ InitServices

----------------------------------------------------------------------------
(* JobQueue *)

\* start_queue_processor
StartQueueProcessor ==
    /\ ~processor
    /\ processor' = TRUE
    /\ UNCHANGED <<jobs, active_jobs, running_tasks, dispatches, tasks, pauses>>
    /\ UNCHANGED managerVars
    /\ UNCHANGED serviceVars

\* create_job: insert the row as pending, put the Job object into active_jobs,
\* start the processor when none is running
create_job(job_type, collection_name, priority) ==
    /\ jobs' = Append(jobs, [job_type |-> job_type,
                             collection_name |-> collection_name,
                             status |-> PENDING,
                             priority |-> priority,
                             completed_at |-> FALSE])
    /\ active_jobs' = Append(active_jobs,
                             [status |-> PENDING, completed_at |-> FALSE])
    /\ dispatches' = Append(dispatches, 0)
    /\ processor' = TRUE
    /\ UNCHANGED <<running_tasks, tasks, pauses>>

\* the row write of update_job_progress:
\*   UPDATE jobs SET progress_data, status, started_at, completed_at
\* from the object that active_jobs holds
PersistFromMemory(rows, mem, j) ==
    [rows EXCEPT ![j].status = mem[j].status,
                 ![j].completed_at = mem[j].completed_at]

\* update_job_progress(job_id, progress_data) as every handler calls it
update_job_progress(j) ==
    IF InMemory(j) THEN PersistFromMemory(jobs, active_jobs, j) ELSE jobs

\* the object after update_job_progress(job_id, progress_data, status)
SetStatus(obj, s) ==
    [status |-> s,
     completed_at |-> obj.completed_at \/ s \in Terminal]

\* update_job_progress with a status argument, called on the queue directly
UpdateJobProgressStatus(j, s) ==
    /\ InMemory(j)
    /\ active_jobs' = [active_jobs EXCEPT ![j] = SetStatus(active_jobs[j], s)]
    /\ jobs' = PersistFromMemory(jobs, active_jobs', j)
    /\ UNCHANGED <<running_tasks, dispatches, tasks, pauses, processor>>
    /\ UNCHANGED managerVars
    /\ UNCHANGED serviceVars

\* cancel_job: refuses unknown and terminal jobs; cancels the task registered in
\* running_tasks (whose _execute_job writes cancelled), then writes cancelled
cancel_job(j) ==
    /\ InMemory(j)
    /\ active_jobs[j].status \notin Terminal
    /\ tasks' = IF j \in running_tasks
                THEN {IF t.job = j /\ IsCurrent(t) THEN [t EXCEPT !.pc = "dead"] ELSE t :
                        t \in {u \in tasks : ~(u.job = j /\ IsCurrent(u) /\ ~VaultRunActive(u))}}
                ELSE tasks
    /\ running_tasks' = running_tasks \ {j}
    /\ active_jobs' = [active_jobs EXCEPT ![j].status = CANCELLED, ![j].completed_at = TRUE]
    /\ jobs' = [jobs EXCEPT ![j].status = CANCELLED, ![j].completed_at = TRUE]
    /\ UNCHANGED <<dispatches, pauses, processor>>

CancelJob(j) ==
    /\ cancel_job(j)
    /\ UNCHANGED managerVars
    /\ UNCHANGED serviceVars

\* pause_job: only a running job; UPDATE jobs SET status, data
pause_job(j) ==
    /\ InMemory(j)
    /\ active_jobs[j].status = RUNNING
    /\ pauses < MaxPauses
    /\ pauses' = pauses + 1
    /\ active_jobs' = [active_jobs EXCEPT ![j].status = PAUSED]
    /\ jobs' = [jobs EXCEPT ![j].status = PAUSED]
    /\ UNCHANGED <<running_tasks, dispatches, tasks, processor>>

PauseJob(j) ==
    /\ pause_job(j)
    /\ UNCHANGED managerVars
    /\ UNCHANGED serviceVars

\* resume_job: only a paused job; it goes back to queued
resume_job(j) ==
    /\ InMemory(j)
    /\ active_jobs[j].status = PAUSED
    /\ active_jobs' = [active_jobs EXCEPT ![j].status = QUEUED]
    /\ jobs' = [jobs EXCEPT ![j].status = QUEUED]
    /\ UNCHANGED <<running_tasks, dispatches, tasks, pauses, processor>>

ResumeJob(j) ==
    /\ resume_job(j)
    /\ UNCHANGED managerVars
    /\ UNCHANGED serviceVars

\* the task _start_job_execution creates for job j, its r-th execution
NewTask(j, r) ==
    [job |-> j, run |-> r, pc |-> "start", vstatus |-> "none", vdocs |-> 0]

\* a dispatcher that offers every slot in each pass, whatever is running
DispatchLimit_all_slots == max_concurrent_jobs

\* slots the dispatcher fills in one pass
DispatchLimit == max_concurrent_jobs - RunningCount

\* every task created so far has run up to its first suspension
TasksStarted == \A t \in tasks : t.pc # "start" /\ t.vstatus # "queued"

\* one pass of _queue_processor, which makes passes while _shutdown_event is
\* not set: _process_next_jobs, with _get_next_jobs and _start_job_execution
\* for every selected row.  Two passes are separated by asyncio.sleep(1), and
\* a task made by asyncio.create_task runs in the next iteration of the
\* event loop, hence before the next pass.
_process_next_jobs ==
    /\ processor
    /\ ~_shutdown_event
    /\ TasksStarted
    /\ RunningCount < max_concurrent_jobs
    /\ LET sel == _get_next_jobs(DispatchLimit)
       IN /\ sel # {}
          /\ active_jobs' = [j \in JobIds |->
                IF j \in sel
                THEN [status |-> RUNNING, completed_at |-> FALSE]
                ELSE active_jobs[j]]
          /\ jobs' = [j \in JobIds |->
                IF j \in sel
                THEN [jobs[j] EXCEPT !.status = RUNNING]
                ELSE jobs[j]]
          /\ dispatches' = [j \in JobIds |-> IF j \in sel THEN dispatches[j] + 1 ELSE dispatches[j]]
          /\ running_tasks' = running_tasks \cup sel
          /\ tasks' = tasks \cup {NewTask(j, dispatches[j] + 1) : j \in sel}
    /\ UNCHANGED <<pauses, processor>>
    /\ UNCHANGED managerVars
    /\ UNCHANGED serviceVars

\* the end of _execute_job for task t: the status goes to the task's own Job
\* object, the row is updated, the running_tasks entry of the id is dropped
Finish(t, s) ==
    /\ active_jobs' = IF IsCurrent(t)
                      THEN [active_jobs EXCEPT ![t.job].status = s, ![t.job].completed_at = TRUE]
                      ELSE active_jobs
    /\ jobs' = [jobs EXCEPT ![t.job].status = s, ![t.job].completed_at = TRUE]
    /\ running_tasks' = running_tasks \ {t.job}
    /\ UNCHANGED <<dispatches, pauses, processor>>

Alive(t) == t.pc # "dead"

\* the event loop runs the tasks that one pass created in the order of their
\* creation, which is the order of the selection
CanRun(t) ==
    /\ Alive(t)
    /\ t.pc = "start" => \A u \in tasks : u.pc = "start" => ~Before(u.job, t.job)

----------------------------------------------------------------------------
(* The queue on its own, with handlers that only report progress, return   *)
(* or raise                                                                *)

CreateJob ==
    \E ty \in {CREATE_JOB}, n \in {NameList[1]}, p \in {0} :
        /\ Len(jobs) < MaxJobs
        /\ create_job(ty, n, p)
        /\ UNCHANGED managerVars
        /\ UNCHANGED serviceVars

\* the first run of a handler: it reports progress and is suspended
HandlerBegin(t) ==
    /\ t.pc = "start"
    /\ CanRun(t)
    /\ jobs' = update_job_progress(t.job)
    /\ tasks' = (tasks \ {t}) \cup {[t EXCEPT !.pc = "poll"]}
    /\ UNCHANGED <<active_jobs, running_tasks, dispatches, pauses, processor>>
    /\ UNCHANGED managerVars
    /\ UNCHANGED serviceVars

\* a later progress report (one that changes the row)
HandlerProgress(t) ==
    /\ t.pc = "poll"
    /\ jobs' = update_job_progress(t.job)
    /\ jobs' # jobs
    /\ UNCHANGED <<active_jobs, running_tasks, dispatches, tasks, pauses, processor>>
    /\ UNCHANGED managerVars
    /\ UNCHANGED serviceVars

HandlerReturn(t) ==
    /\ CanRun(t)
    /\ Finish(t, COMPLETED)
    /\ tasks' = tasks \ {t}
    /\ UNCHANGED managerVars
    /\ UNCHANGED serviceVars

HandlerRaise(t) ==
    /\ CanRun(t)
    /\ Finish(t, FAILED)
    /\ tasks' = tasks \ {t}
    /\ UNCHANGED managerVars
    /\ UNCHANGED serviceVars

QueueNext ==
    \/ StartQueueProcessor
    \/ CreateJob
    \/ _process_next_jobs
    \/ \E j \in JobIds : PauseJob(j)
    \/ \E j \in JobIds : ResumeJob(j)
    \/ \E j \in JobIds : CancelJob(j)
    \/ \E t \in tasks : HandlerBegin(t)
    \/ \E t \in tasks : HandlerProgress(t)
    \/ \E t \in tasks : HandlerReturn(t)
    \/ \E t \in tasks : HandlerRaise(t)

SpecQueue == Init /\ [][QueueNext]_vars

\* the queue with handlers that are run to their end and a processor that
\* keeps making passes
SpecQueueFair ==
    /\ SpecQueue
    /\ WF_vars(_process_next_jobs)
    /\ WF_vars(\E t \in tasks : HandlerBegin(t))
    /\ WF_vars(\E t \in tasks : HandlerReturn(t) \/ HandlerRaise(t))

\* the queue when its callers also pass a status to update_job_progress
CreateJobStatusArg ==
    /\ Len(jobs) < MaxStatusJobs
    /\ CreateJob

UpdateStatusCall(j, s) ==
    /\ dispatches[j] < MaxRuns
    /\ UpdateJobProgressStatus(j, s)

NextStatusArg ==
    \/ CreateJobStatusArg
    \/ _process_next_jobs
    \/ \E j \in JobIds : PauseJob(j)
    \/ \E j \in JobIds : ResumeJob(j)
    \/ \E j \in JobIds : CancelJob(j)
    \/ \E t \in tasks : HandlerBegin(t)
    \/ \E t \in tasks : HandlerProgress(t)
    \/ \E t \in tasks : HandlerReturn(t)
    \/ \E t \in tasks : HandlerRaise(t)
    \/ \E j \in JobIds, s \in JobStatus : UpdateStatusCall(j, s)

SpecStatusArg == Init /\ [][NextStatusArg]_vars

\* a new process over the jobs table of a previous one: JobQueue.__init__
\* creates the table if it is missing and leaves the rows as they are;
\* active_jobs and running_tasks start empty
LeftoverRow(s) ==
    [job_type |-> CREATE_JOB, collection_name |-> NameList[1], status |-> s,
     priority |-> 0, completed_at |-> s \in Terminal]

InitRestart ==
    /\ \E k \in 1..MaxLeftover : \E f \in [1..k -> JobStatus] :
          /\ jobs = [i \in 1..k |-> LeftoverRow(f[i])]
          /\ active_jobs = [i \in 1..k |-> NoJob]
          /\ dispatches = [i \in 1..k |-> 0]
    /\ running_tasks = {}
    /\ tasks = {}
    /\ pauses = 0
    /\ processor = FALSE
    /\ collections = [n \in Names |-> NoRow]
    /\ tokens = <<>>
    /\ chroma = [s \in Namespaces |-> NoNs]
    /\ InitServices

SpecRestart == InitRestart /\ [][QueueNext]_vars

----------------------------------------------------------------------------
(* CollectionManager: the calls of the control API *)

RowExists(n) == collections[n].status # "absent"

\* create_collection with a valid name and a valid vault path: INSERT the row
\* with status 'created' (schema defaults for the rest), then create_job
CreateCollection(n) ==
    /\ Len(jobs) < MaxManagerJobs
    /\ ~RowExists(n)
    /\ collections' = [collections EXCEPT ![n] =
            [status |-> "created", document_count |-> 0, size_bytes |-> 0,
             health_status |-> "unknown", error_message |-> FALSE,
             last_indexed_at |-> FALSE]]
    /\ create_job(CREATE_JOB, n, 0)
    /\ UNCHANGED <<tokens, chroma>>
    /\ UNCHANGED serviceVars

\* characters of request names besides letters, digits, "_" and "-": a line
\* feed, a space, and a letter outside ASCII (one that str.isalnum() accepts)
LineFeed == "\n"
Space == " "
NonAsciiLetter == "e-acute"

IsAsciiAlnum(c) ==
    \/ \E i \in 1..26 : c \in {UpperCase[i], LowerCase[i]}
    \/ c \in Digits

\* str.isalnum() on one character
IsAlnum(c) == IsAsciiAlnum(c) \/ c = NonAsciiLetter

\* _is_valid_collection_name
_is_valid_collection_name(name) ==
    /\ ~(name = <<>> \/ Len(name) > 100)
    /\ \A i \in 1..Len(name) : IsAlnum(name[i]) \/ name[i] \in {"_", "-"}

\* re.match(r'^[a-zA-Z0-9_-]+$', v): "$" also matches before a final line feed
RegexNameMatch(v) ==
    LET body == IF v # <<>> /\ v[Len(v)] = LineFeed THEN SubSeq(v, 1, Len(v) - 1) ELSE v
    IN /\ body # <<>>
       /\ \A i \in 1..Len(body) : IsAsciiAlnum(body[i]) \/ body[i] \in {"_", "-"}

\* CreateCollectionRequest accepts the name (min_length, max_length, the
\* validator's pattern)
RequestNameAccepted(v) ==
    /\ Len(v) >= 1
    /\ Len(v) <= 100
    /\ RegexNameMatch(v)

\* CreateCollectionRequest.validate_collection_name: return v.lower()
validate_collection_name(v) == [i \in 1..Len(v) |-> Lower(v[i])]

\* a vault path as _validate_vault_path sees it
Paths ==
    {[exists |-> FALSE, is_dir |-> FALSE, obsidian |-> FALSE],
     [exists |-> TRUE, is_dir |-> FALSE, obsidian |-> FALSE],
     [exists |-> TRUE, is_dir |-> TRUE, obsidian |-> FALSE],
     [exists |-> TRUE, is_dir |-> TRUE, obsidian |-> TRUE]}

\* a path check that does not look for the .obsidian folder
_validate_vault_path_any_directory(path) ==
    IF ~path.exists \/ ~path.is_dir THEN FALSE ELSE TRUE

\* _validate_vault_path
_validate_vault_path(path) ==
    IF ~path.exists \/ ~path.is_dir THEN FALSE ELSE path.obsidian

\* names that requests carry
LongName == [i \in 1..101 |-> "a"]
RawNames ==
    Names \cup {<<"A", "b", "c">>, <<>>, <<"a", Space, "c">>, <<"a", "b", "c", LineFeed>>,
                <<NonAsciiLetter, "b", "c">>, LongName}

\* POST /collections: the request model validates and lowers the name, then
\* create_collection raises ValueError for a name that is invalid or exists
\* or for a bad vault path; else it INSERTs the row (name is the primary
\* key) and calls create_job
CreateCollectionCall(raw, path) ==
    IF ~RequestNameAccepted(raw)
    THEN UNCHANGED vars
    ELSE LET n == validate_collection_name(raw)
         IN IF \/ ~_is_valid_collection_name(n)
               \/ n \in Names /\ RowExists(n)
               \/ ~_validate_vault_path(path)
            THEN UNCHANGED vars
            ELSE /\ n \in Names
                 /\ CreateCollection(n)

\* get_deletion_confirmation: _store_confirmation_token
GetDeletionConfirmation(n) ==
    /\ Len(tokens) < MaxTokens
    /\ RowExists(n)
    /\ tokens' = Append(tokens, [collection_name |-> n, state |-> "valid"])
    /\ UNCHANGED <<collections, chroma>>
    /\ UNCHANGED queueVars
    /\ UNCHANGED serviceVars

\* more than 300 s pass after a token was stored (a step of SpecExpiry and
\* SpecTokens only)
TokenExpires(k) ==
    /\ tokens[k].state = "valid"
    /\ tokens' = [tokens EXCEPT ![k].state = "expired"]
    /\ UNCHANGED <<collections, chroma>>
    /\ UNCHANGED queueVars
    /\ UNCHANGED serviceVars

\* a validation that accepts any stored, unexpired token, whatever collection
\* it was issued for
TokenAccepted_any_collection(n, k) ==
    /\ k # 0
    /\ tokens[k].state = "valid"

\* _validate_confirmation_token, k = 0 for a token that is not in the map (none
\* was presented, or one that was never stored): the entry must exist, name
\* the collection and not be past expires_at
TokenAccepted(n, k) ==
    /\ k # 0
    /\ tokens[k].state = "valid"
    /\ tokens[k].collection_name = n

\* the branch of _validate_confirmation_token that finds the token of this
\* collection expired
TokenFoundExpired(n, k) ==
    /\ k # 0
    /\ tokens[k].state = "expired"
    /\ tokens[k].collection_name = n

\* delete_collection: ValueError when the row is missing or the token is not
\* accepted (an expired token of this collection is dropped from the map on
\* the way), else create_job; the token stays in the map
DeleteCollection(n, k) ==
    IF ~RowExists(n)
    THEN UNCHANGED vars
    ELSE IF TokenAccepted(n, k)
    THEN /\ Len(jobs) < MaxManagerJobs
         /\ create_job(DELETE_JOB, n, 0)
         /\ UNCHANGED managerVars
         /\ UNCHANGED serviceVars
    ELSE /\ tokens' = IF TokenFoundExpired(n, k)
                      THEN [tokens EXCEPT ![k].state = "removed"]
                      ELSE tokens
         /\ UNCHANGED <<collections, chroma>>
         /\ UNCHANGED queueVars
         /\ UNCHANGED serviceVars

\* the messages of the ValueErrors that reindex_collection raises, as their
\* words (the quoted collection name of the first one left out)
NotFoundMsg == <<"Collection", "not", "found">>
InProgressMsg == <<"Indexing", "already", "in", "progress">>
QueueFullMsg == <<"Job", "queue", "is", "full">>
NoError == <<>>

\* pat in msg, for a pattern and a message made of whole words
Contains(msg, pat) ==
    \E i \in 0..(Len(msg) - Len(pat)) : \A k \in 1..Len(pat) : msg[i + k] = pat[k]

\* the ValueError that reindex_collection(n, force=force) raises in the
\* current state, NoError when it goes on to create_job
reindex_collection_error(n, force) ==
    IF ~RowExists(n) THEN NotFoundMsg
    ELSE IF get_active_job_for_collection(n) # 0 /\ ~force THEN InProgressMsg
    ELSE IF available_slots <= 0 THEN QueueFullMsg
    ELSE NoError

\* the HTTP status of POST /{collection_name}/reindex: the route picks the
\* status by the text of the ValueError
reindex_route_status(n, force) ==
    LET error_msg == reindex_collection_error(n, force)
    IN IF error_msg = NoError THEN 200
       ELSE IF Contains(error_msg, <<"not", "found">>) THEN 404
       ELSE IF Contains(error_msg, <<"already", "running">>) THEN 409
       ELSE IF Contains(error_msg, <<"queue", "full">>) THEN 503
       ELSE 400

\* reindex_collection
ReindexCollection(n, force) ==
    /\ Len(jobs) < MaxManagerJobs
    /\ reindex_collection_error(n, force) = NoError
    /\ create_job(REINDEX_JOB, n, 0)
    /\ UNCHANGED managerVars
    /\ UNCHANGED serviceVars

\* _determine_collection_status, as list_collections and
\* get_collection_status report it
_determine_collection_status(n, stored_status) ==
    LET active_job == get_active_job_for_collection(n)
    IN IF active_job = 0 THEN stored_status
       ELSE IF jobs[active_job].job_type = CREATE_JOB THEN "indexing"
       ELSE IF jobs[active_job].job_type = REINDEX_JOB THEN "reindexing"
       ELSE IF jobs[active_job].job_type = DELETE_JOB THEN "deleting"
       ELSE stored_status

----------------------------------------------------------------------------
(* VaultService: the background run that index_vault starts *)

\* a size computed from the smaller of the two counts
_calculate_collection_size_min(n, document_count) ==
    LET actual_count == IF NsExists(ProviderNs(n)) THEN chroma[ProviderNs(n)].count ELSE 0
        smaller == IF document_count < actual_count THEN document_count ELSE actual_count
    IN smaller * estimated_size_per_doc

\* what ChromaDBProvider.get_collection_health answers: it raises, or it
\* returns a dict whose document_count is the count of the namespace
HealthRaises == [raises |-> TRUE, document_count |-> 0]
HealthInfo(c) == [raises |-> FALSE, document_count |-> c]

\* get_collection_health of the shared client: document_count 0 for a
\* namespace that does not exist
get_collection_health(n) ==
    HealthInfo(IF NsExists(ProviderNs(n)) THEN chroma[ProviderNs(n)].count ELSE 0)

\* a size computed from the smaller of the two counts, whatever the answer
calculate_size_min(health_info, document_count) ==
    LET actual_count == health_info.document_count
        smaller == IF document_count < actual_count THEN document_count ELSE actual_count
    IN smaller * estimated_size_per_doc

\* the body of _calculate_collection_size over the answer of the health
\* query: max(document_count, actual_count) * estimated_size_per_doc, and
\* document_count * 2048 in the except branch
calculate_size(health_info, document_count) ==
    IF health_info.raises
    THEN document_count * 2048
    ELSE LET actual_count == health_info.document_count
             larger == IF document_count > actual_count
                       THEN document_count ELSE actual_count
         IN larger * estimated_size_per_doc

\* _calculate_collection_size
_calculate_collection_size(n, document_count) ==
    calculate_size(get_collection_health(n), document_count)

Name(t) == jobs[t.job].collection_name
VaultNs(t) == _sanitize_vault_name(Name(t))
Force(t) == jobs[t.job].job_type = REINDEX_JOB

\* the vault run of t ends as t2; nothing reads it once its handler is gone
VaultRunEnds(t, t2) ==
    IF t.pc = "dead" THEN tasks \ {t} ELSE (tasks \ {t}) \cup {t2}

\* _process_vault_indexing up to the first batch: no markdown file fails the
\* run; force_reindex drops the namespace; create_vault_collection fails when
\* the namespace exists
VaultRunStart(t, has_files) ==
    /\ t.vstatus = "queued"
    /\ IF ~has_files
       THEN /\ tasks' = VaultRunEnds(t, [t EXCEPT !.vstatus = "failed"])
            /\ UNCHANGED chroma
       ELSE IF NsExists(VaultNs(t)) /\ ~Force(t)
       THEN /\ tasks' = VaultRunEnds(t, [t EXCEPT !.vstatus = "failed"])
            /\ UNCHANGED chroma
       ELSE /\ tasks' = (tasks \ {t}) \cup {[t EXCEPT !.vstatus = "running"]}
            /\ chroma' = [chroma EXCEPT ![VaultNs(t)] = [count |-> 0, owner |-> <<t.job, t.run>>]]
    /\ UNCHANGED <<collections, tokens>>
    /\ UNCHANGED <<jobs, active_jobs, running_tasks, dispatches, pauses, processor>>
    /\ UNCHANGED serviceVars

\* the rest of _process_vault_indexing: d files parse and are chunked (one
\* chunk each); the chunks are added through the collection handle of this
\* run, which fails once the namespace was dropped or recreated
VaultRunFinish(t, d) ==
    /\ t.vstatus = "running"
    /\ LET mine == chroma[VaultNs(t)].owner = <<t.job, t.run>> /\ NsExists(VaultNs(t))
           ok == d = 0 \/ mine
           t2 == [t EXCEPT !.vstatus = IF ok THEN "completed" ELSE "failed",
                           !.vdocs = IF ok THEN d ELSE 0]
       IN /\ tasks' = VaultRunEnds(t, t2)
          /\ chroma' = IF ok /\ d > 0
                        THEN [chroma EXCEPT ![VaultNs(t)].count = d]
                        ELSE chroma
    /\ UNCHANGED <<collections, tokens>>
    /\ UNCHANGED <<jobs, active_jobs, running_tasks, dispatches, pauses, processor>>
    /\ UNCHANGED serviceVars

\* the embedding service or the store fails in the last batch
VaultRunFail(t) ==
    /\ t.vstatus = "running"
    /\ tasks' = VaultRunEnds(t, [t EXCEPT !.vstatus = "failed"])
    /\ UNCHANGED managerVars
    /\ UNCHANGED <<jobs, active_jobs, running_tasks, dispatches, pauses, processor>>
    /\ UNCHANGED serviceVars

----------------------------------------------------------------------------
(* The job handlers of CollectionManager, run by _execute_job *)

\* the except branch of a handler: UPDATE collections SET status = 'error',
\* error_message = str(e) WHERE name = ?
MarkError(n) ==
    IF RowExists(n)
    THEN [collections EXCEPT ![n].status = "error", ![n].error_message = TRUE]
    ELSE collections

\* the UPDATE a create or reindex handler makes when the vault run completed
MarkIndexed(n, document_count) ==
    IF RowExists(n)
    THEN [collections EXCEPT
            ![n].status = "active",
            ![n].last_indexed_at = TRUE,
            ![n].document_count = document_count,
            ![n].size_bytes = _calculate_collection_size(n, document_count),
            ![n].health_status = IF document_count > 0 THEN "healthy" ELSE "empty"]
    ELSE collections

\* a handler raises: the row goes to error, _execute_job writes failed
HandlerFails(t) ==
    /\ collections' = MarkError(Name(t))
    /\ Finish(t, FAILED)
    /\ tasks' = tasks \ {t}

\* a handler reports progress and goes to sleep in its monitoring loop
Progress(t, t2) ==
    /\ jobs' = update_job_progress(t.job)
    /\ tasks' = (tasks \ {t}) \cup {t2}
    /\ UNCHANGED <<active_jobs, running_tasks, dispatches, pauses, processor>>

\* _handle_create_collection_job up to its first sleep: the provider namespace
\* is created (it must not exist), index_vault(force_reindex=False) refuses a
\* vault namespace that exists, else it starts the vault run
CreateHandlerStart(t) ==
    /\ jobs[t.job].job_type = CREATE_JOB
    /\ t.pc = "start"
    /\ CanRun(t)
    /\ IF NsExists(ProviderNs(Name(t)))
       THEN /\ HandlerFails(t)
            /\ UNCHANGED <<tokens, chroma>>
       ELSE /\ chroma' = [chroma EXCEPT ![ProviderNs(Name(t))] = [count |-> 0, owner |-> <<0, 0>>]]
            /\ UNCHANGED tokens
            /\ IF NsExists(VaultNs(t))
               THEN HandlerFails(t)
               ELSE /\ Progress(t, [t EXCEPT !.pc = "poll", !.vstatus = "queued"])
                    /\ UNCHANGED collections
    /\ UNCHANGED serviceVars

\* _handle_reindex_collection_job up to its first sleep
ReindexHandlerStart(t) ==
    /\ jobs[t.job].job_type = REINDEX_JOB
    /\ t.pc = "start"
    /\ CanRun(t)
    /\ IF ~RowExists(Name(t))
       THEN /\ HandlerFails(t)
            /\ UNCHANGED <<tokens, chroma>>
       ELSE /\ Progress(t, [t EXCEPT !.pc = "poll", !.vstatus = "queued"])
            /\ UNCHANGED managerVars
    /\ UNCHANGED serviceVars

\* one iteration of the monitoring loop of the two handlers while the vault
\* run is neither completed nor failed: a progress update, then sleep
PollStep(t) ==
    /\ t.pc = "poll"
    /\ VaultRunActive(t)
    /\ jobs' = update_job_progress(t.job)
    /\ jobs' # jobs
    /\ UNCHANGED <<active_jobs, running_tasks, dispatches, tasks, pauses, processor>>
    /\ UNCHANGED managerVars
    /\ UNCHANGED serviceVars

\* the iteration that finds the vault run completed: the row is updated, the
\* handler returns and _execute_job writes completed
IndexingCompleted(t) ==
    /\ t.pc = "poll"
    /\ t.vstatus = "completed"
    /\ collections' = MarkIndexed(Name(t), t.vdocs)
    /\ Finish(t, COMPLETED)
    /\ tasks' = tasks \ {t}
    /\ UNCHANGED <<tokens, chroma>>
    /\ UNCHANGED serviceVars

\* the iteration that finds the vault run failed: the handler raises
IndexingFailed(t) ==
    /\ t.pc = "poll"
    /\ t.vstatus = "failed"
    /\ HandlerFails(t)
    /\ UNCHANGED <<tokens, chroma>>
    /\ UNCHANGED serviceVars

\* _handle_delete_collection_job, which never sleeps: the provider namespace
\* is deleted, then the rows; _execute_job writes completed
DeleteHandlerRun(t) ==
    /\ jobs[t.job].job_type = DELETE_JOB
    /\ t.pc = "start"
    /\ CanRun(t)
    /\ chroma' = [chroma EXCEPT ![ProviderNs(Name(t))] = NoNs]
    /\ collections' = [collections EXCEPT ![Name(t)] = NoRow]
    /\ Finish(t, COMPLETED)
    /\ tasks' = tasks \ {t}
    /\ UNCHANGED tokens
    /\ UNCHANGED serviceVars

Next ==
    \/ StartQueueProcessor
    \/ \E n \in Names : CreateCollection(n)
    \/ \E n \in Names : GetDeletionConfirmation(n)
    \/ \E n \in Names, k \in 0..Len(tokens) : DeleteCollection(n, k)
    \/ \E n \in Names, force \in BOOLEAN : ReindexCollection(n, force)
    \/ _process_next_jobs
    \/ \E j \in JobIds : PauseJob(j)
    \/ \E j \in JobIds : ResumeJob(j)
    \/ \E j \in JobIds : CancelJob(j)
    \/ \E t \in tasks : CreateHandlerStart(t)
    \/ \E t \in tasks : ReindexHandlerStart(t)
    \/ \E t \in tasks : DeleteHandlerRun(t)
    \/ \E t \in tasks : PollStep(t)
    \/ \E t \in tasks : IndexingCompleted(t)
    \/ \E t \in tasks : IndexingFailed(t)
    \/ \E t \in tasks, has_files \in BOOLEAN : VaultRunStart(t, has_files)
    \/ \E t \in tasks, d \in 0..MaxDocs : VaultRunFinish(t, d)
    \/ \E t \in tasks : VaultRunFail(t)

Spec == Init /\ [][Next]_vars

\* the same program observed for longer than the lifetime of a token
NextExpiry ==
    \/ Next
    \/ \E k \in 1..Len(tokens) : TokenExpires(k)

SpecExpiry == Init /\ [][NextExpiry]_vars

----------------------------------------------------------------------------
(* Properties *)

\* jobs of collection n whose persisted status is one of the given statuses
JobsOf(n, statuses) ==
    {j \in JobIds : jobs[j].collection_name = n /\ jobs[j].status \in statuses}

\* rows of the jobs table with status running
PersistedRunning == {j \in JobIds : jobs[j].status = RUNNING}

\* C1: every collection has at most one job whose status is pending, queued,
\* running or paused.
C1_SingleActiveJob ==
    \A n \in Names : Cardinality(JobsOf(n, ActiveStatus)) <= 1

\* C2: the number of running jobs never exceeds max_concurrent_jobs, in the
\* jobs table and in the queue's memory, under every interleaving of job
\* creation, dispatcher passes, pause, resume, cancel and handler completion.
C2_RunningBounded ==
    /\ Cardinality(PersistedRunning) <= max_concurrent_jobs
    /\ RunningCount <= max_concurrent_jobs

\* all slots are taken and a further job waits for one
C2_Witness ==
    /\ Cardinality(PersistedRunning) = max_concurrent_jobs
    /\ RunningCount = max_concurrent_jobs
    /\ \E j \in JobIds : jobs[j].status \in {PENDING, QUEUED}

\* job j goes to running in this step
BecomesRunning(j) == jobs[j].status # RUNNING /\ jobs'[j].status = RUNNING

\* C3: when the dispatcher moves a job to running, every other job of the
\* same collection that was moved to running before it, or with it, is
\* persisted as completed, failed or cancelled.
C3_OneRunningPerCollection ==
    [][\A j \in JobIds : BecomesRunning(j) =>
          \A k \in JobIds \ {j} :
              (jobs[k].collection_name = jobs[j].collection_name /\ dispatches'[k] > 0)
                  => jobs'[k].status \in Terminal]_vars

\* C4: a job persisted as completed, failed or cancelled keeps its status and
\* its completed_at through every later step (cancel_job, pause_job,
\* resume_job, update_job_progress, the end of a worker).
C4_TerminalIsFinal ==
    [][\A j \in JobIds : jobs[j].status \in Terminal =>
          /\ jobs'[j].status = jobs[j].status
          /\ jobs'[j].completed_at = jobs[j].completed_at]_vars

\* the edges of the job FSM
FSMEdges ==
    {<<PENDING, QUEUED>>, <<QUEUED, RUNNING>>, <<RUNNING, COMPLETED>>,
     <<RUNNING, FAILED>>, <<RUNNING, PAUSED>>, <<PAUSED, QUEUED>>}
    \cup {<<s, CANCELLED>> : s \in ActiveStatus}

\* C5: every change of a job's persisted status is an edge of the FSM.
C5_OnlyFSMEdges ==
    [][\A j \in JobIds : jobs'[j].status # jobs[j].status =>
          <<jobs[j].status, jobs'[j].status>> \in FSMEdges]_vars

\* C6: once the processor of a new process runs over the jobs table of a
\* previous one, no row is left in running that this process did not
\* dispatch itself: the rows found running were demoted to queued, from where
\* the dispatcher takes them.
C6_RunningDemoted ==
    processor => \A j \in JobIds : jobs[j].status = RUNNING => InMemory(j)

\* C7: with handlers that terminate and a processor that keeps running, every
\* job that is created reaches completed, failed or cancelled, and it was
\* dispatched on the way unless it was cancelled.
C7_EveryJobEnds ==
    \A j \in 1..MaxJobs :
        (j \in JobIds) ~> /\ j \in JobIds
                          /\ jobs[j].status \in Terminal
                          /\ jobs[j].status = CANCELLED \/ dispatches[j] > 0

\* more jobs than slots were created, none was cancelled or failed, and all
\* of them are completed
C7_Witness ==
    /\ Len(jobs) > max_concurrent_jobs
    /\ \A j \in JobIds : jobs[j].status = COMPLETED /\ active_jobs[j].status = COMPLETED

\* the status the API reports for kind ty
StatusOfKind(ty) ==
    IF ty = CREATE_JOB THEN "indexing"
    ELSE IF ty = REINDEX_JOB THEN "reindexing" ELSE "deleting"

\* C8: the reported status of a collection is indexing, reindexing or
\* deleting exactly when a job of that kind for it is pending, queued, running
\* or paused, and it is the stored status when it has no such job.
C8_ReportedStatus ==
    \A n \in Names : RowExists(n) =>
        LET reported == _determine_collection_status(n, collections[n].status)
            active == JobsOf(n, ActiveStatus)
        IN /\ \A ty \in JobTypes :
                reported = StatusOfKind(ty) <=> \E j \in active : jobs[j].job_type = ty
           /\ active = {} => reported = collections[n].status

\* job j, an index or reindex job, goes to completed in this step
IndexCompletes(j) ==
    /\ jobs[j].job_type \in {CREATE_JOB, REINDEX_JOB}
    /\ jobs[j].status # COMPLETED
    /\ jobs'[j].status = COMPLETED

\* C9: when an index or reindex job goes to completed, the row of its
\* collection has status active, last_indexed_at set, the document count of
\* the run that ended, and health healthy for a positive count, empty for 0.
C9_RowAfterCompletion ==
    [][\A j \in JobIds : IndexCompletes(j) =>
          LET row == collections'[jobs[j].collection_name]
          IN /\ row.status = "active"
             /\ row.last_indexed_at
             /\ \E t \in tasks \ tasks' : t.job = j /\ row.document_count = t.vdocs
             /\ row.health_status = IF row.document_count > 0 THEN "healthy" ELSE "empty"]_vars

\* chunks the store holds in the namespace named like collection n, after the step
StoreCount(n) ==
    IF chroma'[ProviderNs(n)].count >= 0 THEN chroma'[ProviderNs(n)].count ELSE 0

IndexFails(j) ==
    /\ jobs[j].job_type \in {CREATE_JOB, REINDEX_JOB}
    /\ jobs[j].status # FAILED
    /\ jobs'[j].status = FAILED

\* C11: when an index or reindex job goes to failed, the row of its
\* collection has stored status error, an error message and health_status
\* error.
C11_RowAfterFailure ==
    [][\A j \in JobIds : IndexFails(j) =>
          LET row == collections'[jobs[j].collection_name]
          IN /\ row.status = "error"
             /\ row.error_message
             /\ row.health_status = "error"]_vars

----------------------------------------------------------------------------
(* The deletion protocol on its own: collections are created and indexed,  *)
(* tokens are issued, expire and are presented to delete_collection        *)

\* get_deletion_confirmation, up to MaxTokenCalls tokens
GetDeletionConfirmationAgain(n) ==
    /\ Len(tokens) < MaxTokenCalls
    /\ RowExists(n)
    /\ tokens' = Append(tokens, [collection_name |-> n, state |-> "valid"])
    /\ UNCHANGED <<collections, chroma>>
    /\ UNCHANGED queueVars
    /\ UNCHANGED serviceVars

NextTokens ==
    \/ \E n \in Names : CreateCollection(n)
    \/ \E n \in Names : GetDeletionConfirmationAgain(n)
    \/ \E k \in 1..Len(tokens) : TokenExpires(k)
    \/ \E n \in Names, k \in 0..Len(tokens) : DeleteCollection(n, k)
    \/ _process_next_jobs
    \/ \E t \in tasks : CreateHandlerStart(t)
    \/ \E t \in tasks : DeleteHandlerRun(t)
    \/ \E t \in tasks : IndexingCompleted(t)
    \/ \E t \in tasks : IndexingFailed(t)
    \/ \E t \in tasks, has_files \in BOOLEAN : VaultRunStart(t, has_files)
    \/ \E t \in tasks, d \in 0..MaxDocs : VaultRunFinish(t, d)

SpecTokens == Init /\ [][NextTokens]_vars

\* token k is in the map, was issued for collection n and is not expired
StoredFor(n, k) ==
    /\ k \in 1..Len(tokens)
    /\ tokens[k].collection_name = n
    /\ tokens[k].state = "valid"

\* rows that this step adds to the jobs table
NewJobs == {j \in 1..Len(jobs') : j > Len(jobs)}

\* C12: a step adds a delete job for a collection only if a token issued for
\* that collection is stored and unexpired, and a delete_collection call that
\* presents anything else (no token, an unknown one, one of another
\* collection, an expired one) leaves the collection rows, the vector
\* namespaces and the jobs table as they are.
C12_DeleteNeedsValidToken ==
    [][/\ \A j \in NewJobs : jobs'[j].job_type = DELETE_JOB =>
              \E k \in 1..Len(tokens) : StoredFor(jobs'[j].collection_name, k)
       /\ \A n \in Names, k \in 0..Len(tokens) :
              (DeleteCollection(n, k) /\ ~StoredFor(n, k)) =>
                  UNCHANGED <<collections, chroma, jobs>>]_vars

\* an expired token was presented and dropped, and a delete job exists for a
\* collection whose token is still valid
C12_Witness ==
    \E k1, k2 \in 1..Len(tokens) :
        /\ tokens[k1].state = "removed"
        /\ tokens[k2].state = "valid"
        /\ \E j \in JobIds : /\ jobs[j].job_type = DELETE_JOB
                             /\ jobs[j].collection_name = tokens[k2].collection_name

\* C13: a delete_collection call that succeeds with a token takes the token
\* out of the map, so that the same token presented again is rejected.
C13_TokenSingleUse ==
    [][\A n \in Names, k \in 1..Len(tokens) :
          (DeleteCollection(n, k) /\ StoredFor(n, k)) =>
              tokens'[k].state = "removed"]_vars

\* the earlier job that reindex_collection finds for collection n is running
EarlierJobRunning(n) ==
    /\ get_active_job_for_collection(n) # 0
    /\ active_jobs[get_active_job_for_collection(n)].status = RUNNING

\* C14: while a collection has an active job, reindex_collection with
\* force=false is rejected and answered with 409 Conflict, and with
\* force=true it is rejected with 409 Conflict whenever that job is running.
C14_ReindexConflict ==
    \A n \in Names : (RowExists(n) /\ get_active_job_for_collection(n) # 0) =>
        /\ reindex_collection_error(n, FALSE) # NoError
        /\ reindex_route_status(n, FALSE) = 409
        /\ EarlierJobRunning(n) =>
              /\ reindex_collection_error(n, TRUE) # NoError
              /\ reindex_route_status(n, TRUE) = 409

\* the part of C14 about force=true alone
C14_ForceRejectedWhileRunning ==
    \A n \in Names : (RowExists(n) /\ EarlierJobRunning(n)) =>
        reindex_collection_error(n, TRUE) # NoError

----------------------------------------------------------------------------
(* The life of a collection from the requests that create it: names and    *)
(* paths as requests carry them, one index job, one delete job             *)

NextCreate ==
    \/ \E raw \in RawNames, path \in Paths : CreateCollectionCall(raw, path)
    \/ \E n \in Names : GetDeletionConfirmation(n)
    \/ \E n \in Names, k \in 0..Len(tokens) : DeleteCollection(n, k)
    \/ _process_next_jobs
    \/ \E t \in tasks : CreateHandlerStart(t)
    \/ \E t \in tasks : DeleteHandlerRun(t)
    \/ \E t \in tasks : IndexingCompleted(t)
    \/ \E t \in tasks : IndexingFailed(t)
    \/ \E t \in tasks, has_files \in BOOLEAN : VaultRunStart(t, has_files)
    \/ \E t \in tasks, d \in 0..MaxDocs : VaultRunFinish(t, d)

SpecCreate == Init /\ [][NextCreate]_vars

\* a name of the form ^[A-Za-z0-9_-]{1,100}$
WellFormedName(v) ==
    /\ Len(v) \in 1..100
    /\ \A i \in 1..Len(v) :
          \/ \E k \in 1..26 : v[i] \in {UpperCase[k], LowerCase[k]}
          \/ v[i] \in Digits \cup {"_", "-"}

\* an absolute directory that exists and holds the .obsidian marker
WellFormedPath(path) == path.exists /\ path.is_dir /\ path.obsidian

\* the index jobs of collection n that wait as pending
PendingIndexJobs(rows, n) ==
    {j \in 1..Len(rows) : /\ rows[j].collection_name = n
                         /\ rows[j].job_type = CREATE_JOB
                         /\ rows[j].status = PENDING}

\* C15: a create_collection call with a malformed name, a name that already
\* has a row or a bad vault path leaves the collection rows and the jobs
\* table as they are; every other call (so exactly one of several calls made
\* for one free name, which run one after the other) inserts the row with
\* status created and leaves exactly one pending index job for the name.
C15_CreateValidatesAndIsUnique ==
    [][\A raw \in RawNames, path \in Paths :
          CreateCollectionCall(raw, path) =>
              LET n == [i \in 1..Len(raw) |-> Lower(raw[i])]
              IN IF \/ ~WellFormedName(raw)
                    \/ ~WellFormedPath(path)
                    \/ n \in Names /\ RowExists(n)
                 THEN UNCHANGED <<collections, jobs>>
                 ELSE /\ n \in Names
                      /\ ~RowExists(n)
                      /\ collections'[n].status = "created"
                      /\ Len(jobs') = Len(jobs) + 1
                      /\ Cardinality(PendingIndexJobs(jobs', n)) = 1]_vars

\* a name has a row again after its first row was deleted, and one pending
\* index job
C15_Witness ==
    \E n \in Names :
        /\ RowExists(n)
        /\ collections[n].status = "created"
        /\ Cardinality(PendingIndexJobs(jobs, n)) = 1
        /\ \E j \in JobIds : /\ jobs[j].collection_name = n
                             /\ jobs[j].job_type = DELETE_JOB
                             /\ jobs[j].status = COMPLETED

\* the vector namespaces that hold data of collection n: the one the create
\* handler makes under the collection's name and the one the chunks go to
CollectionNamespaces(n) == {ProviderNs(n), _sanitize_vault_name(n)}

\* job j, a delete job, goes to completed in this step
DeleteCompletes(j) ==
    /\ jobs[j].job_type = DELETE_JOB
    /\ jobs[j].status # COMPLETED
    /\ jobs'[j].status = COMPLETED

\* job j, a delete job, ends as failed or cancelled in this step
DeleteEndsUncompleted(j) ==
    /\ jobs[j].job_type = DELETE_JOB
    /\ jobs[j].status \notin {FAILED, CANCELLED}
    /\ jobs'[j].status \in {FAILED, CANCELLED}

\* C16: a collection row disappears only in the step in which a delete job of
\* the collection completes; when a delete job completes, the row and the
\* vector namespaces of its collection are gone; and the end of a delete job
\* as failed or cancelled drops no namespace.
C16_DeleteDropsRowAndNamespace ==
    [][/\ \A n \in Names : (RowExists(n) /\ collections'[n].status = "absent") =>
              \E j \in JobIds : DeleteCompletes(j) /\ jobs[j].collection_name = n
       /\ \A j \in JobIds : DeleteCompletes(j) =>
              /\ collections'[jobs[j].collection_name].status = "absent"
              /\ \A s \in CollectionNamespaces(jobs[j].collection_name) : chroma'[s].count < 0
       /\ \A j \in JobIds : DeleteEndsUncompleted(j) => chroma' = chroma]_vars

----------------------------------------------------------------------------
(* The file watcher: FileChangeService and the callback that               *)
(* VaultService.setup_incremental_updates registers with it.               *)

\* the vault whose directory is watched
WatchedVault == NameList[1]

\* add_vault_watch stores a configuration for every vault that was set up
vault_configs == {event_callbacks[i] : i \in 1..Len(event_callbacks)}

\* FileChangeService.start: the background tasks and the observers start
StartService ==
    /\ ~running
    /\ running' = TRUE
    /\ last_cleanup' = now
    /\ UNCHANGED <<event_queue, debounced_events, event_callbacks, now, updates>>
    /\ UNCHANGED outsideWatcher

\* VaultService.setup_incremental_updates: add_vault_watch, then one more
\* handle_vault_changes callback, whether or not the vault has one already
SetupIncrementalUpdates ==
    /\ Len(event_callbacks) < MaxCallbacks
    /\ event_callbacks' = Append(event_callbacks, WatchedVault)
    /\ UNCHANGED <<event_queue, debounced_events, running, now, last_cleanup, updates>>
    /\ UNCHANGED outsideWatcher

\* VaultFileSystemHandler.on_created/on_modified/on_deleted in the observer's
\* thread: the event is stamped with the current time and handed to
\* _queue_change_event, which drops it unless the service is running
WatcherEvent(f, kind) ==
    /\ running
    /\ WatchedVault \in vault_configs
    /\ Len(event_queue) < MaxQueued
    /\ event_queue' = Append(event_queue,
           [file_path |-> f, event_type |-> kind, timestamp |-> now])
    /\ UNCHANGED <<debounced_events, event_callbacks, running, now, last_cleanup,
                   updates>>
    /\ UNCHANGED outsideWatcher

\* one iteration of _process_events: the oldest queued event replaces the
\* event stored under its file
ProcessEvent ==
    /\ running
    /\ event_queue # <<>>
    /\ LET event == Head(event_queue)
       IN debounced_events' = [debounced_events EXCEPT ![event.file_path] = event]
    /\ event_queue' = Tail(event_queue)
    /\ UNCHANGED <<event_callbacks, running, now, last_cleanup, updates>>
    /\ UNCHANGED outsideWatcher

\* the stored events that _cleanup_debounced_events finds ready
ReadyFiles ==
    {f \in Files : /\ debounced_events[f] # NoEvent
                   /\ WatchedVault \in vault_configs
                   /\ now - debounced_events[f].timestamp >= debounce_delay}

\* handle_vault_changes: the events grouped by type
GroupChanges(events) ==
    [added    |-> {e.file_path : e \in {x \in events : x.event_type = "created"}},
     modified |-> {e.file_path : e \in {x \in events : x.event_type = "modified"}},
     deleted  |-> {e.file_path : e \in {x \in events : x.event_type = "deleted"}}]

\* VaultService.incremental_update as called by handle_vault_changes: it
\* takes the changes and works on the vault at once
incremental_update(vault, events) ==
    [vault_name |-> vault, changes |-> GroupChanges(events), events |-> events]

\* one iteration of _cleanup_debounced_events in which something is ready,
\* a second or more after the previous one: the ready events leave
\* debounced_events and _notify_callbacks awaits every registered callback
\* with them, in order
CleanupDebouncedEvents ==
    /\ running
    /\ now - last_cleanup >= 1
    /\ ReadyFiles # {}
    /\ last_cleanup' = now
    /\ LET ready_events == {debounced_events[f] : f \in ReadyFiles}
       IN updates' = updates \o
              [i \in 1..Len(event_callbacks) |->
                  incremental_update(event_callbacks[i], ready_events)]
    /\ debounced_events' = [f \in Files |->
           IF f \in ReadyFiles THEN NoEvent ELSE debounced_events[f]]
    /\ UNCHANGED <<event_queue, event_callbacks, running, now>>
    /\ UNCHANGED outsideWatcher

\* a second passes
Tick ==
    /\ now < MaxTime
    /\ now' = now + 1
    /\ UNCHANGED <<event_queue, debounced_events, event_callbacks, running,
                   last_cleanup, updates>>
    /\ UNCHANGED outsideWatcher

NextWatch ==
    \/ StartService
    \/ SetupIncrementalUpdates
    \/ \E f \in Files, kind \in EventTypes : WatcherEvent(f, kind)
    \/ ProcessEvent
    \/ CleanupDebouncedEvents
    \/ Tick

SpecWatch == Init /\ [][NextWatch]_vars

\* the events of file f that were handed to incremental updates
FlushedEvents(f) ==
    {<<i, e>> \in UNION {{i} \X updates[i].events : i \in 1..Len(updates)} :
        e.file_path = f}

\* C17: events for one file that fall within one debounce window end up in
\* exactly one incremental update: no two incremental updates carry events of
\* the same file whose timestamps are less than debounce_delay apart
C17_OneFlushPerBurst ==
    \A f \in Files : \A x, y \in FlushedEvents(f) :
        \/ x[1] = y[1]
        \/ x[2].timestamp - y[2].timestamp >= debounce_delay
        \/ y[2].timestamp - x[2].timestamp >= debounce_delay

\* the same with a single registered callback, where every flush makes one
\* incremental update
C17_OneFlushPerBurstSingleCallback ==
    Len(event_callbacks) <= 1 => C17_OneFlushPerBurst

----------------------------------------------------------------------------
(* The watcher next to the indexing of the watched collection *)

NextWatchJobs ==
    \/ StartService
    \/ SetupIncrementalUpdates
    \/ \E f \in Files : WatcherEvent(f, "modified")
    \/ ProcessEvent
    \/ CleanupDebouncedEvents
    \/ Tick
    \/ CreateCollection(WatchedVault)
    \/ _process_next_jobs
    \/ \E t \in tasks : CreateHandlerStart(t)
    \/ \E t \in tasks : IndexingCompleted(t)
    \/ \E t \in tasks : IndexingFailed(t)
    \/ \E t \in tasks, has_files \in BOOLEAN : VaultRunStart(t, has_files)
    \/ \E t \in tasks, d \in 0..MaxDocs : VaultRunFinish(t, d)

SpecWatchJobs == Init /\ [][NextWatchJobs]_vars

\* the jobs of collection n that are running
RunningJobsOf(n) ==
    {j \in JobIds : /\ InMemory(j)
                    /\ jobs[j].collection_name = n
                    /\ active_jobs[j].status = RUNNING}

\* the incremental updates that a step makes
NewUpdates == {updates'[i] : i \in (Len(updates) + 1)..Len(updates')}

\* C18: the changes that the watcher flushes are applied only through the job
\* queue: when an incremental update executes, a job of the queue that is
\* neither a create, a reindex nor a delete job carries it, and that job is
\* the only running job of the collection.
C18_UpdatesGoThroughTheQueue ==
    [][\A u \in NewUpdates :
          \E j \in RunningJobsOf(u.vault_name) :
              /\ jobs[j].job_type \notin JobTypes
              /\ RunningJobsOf(u.vault_name) = {j}]_vars

\* the part of it that does not mention the job of the update: no incremental
\* update executes while another job of the collection is running
C18_NoUpdateWhileIndexing ==
    [][\A u \in NewUpdates : RunningJobsOf(u.vault_name) = {}]_vars

----------------------------------------------------------------------------
(* The websocket channels of api/websocket.py: ConnectionManager,          *)
(* ProgressEventHandler and the progress callbacks of VaultService.        *)

\* the connections subscribed to at least one channel that an event matches;
\* an event of a job carries job_id and vault_name and matches every channel
Audience == UNION {ws_channels[ch] : ch \in Channels}

\* a broadcast that iterates the set of a channel holds on to that set, which
\* is emptied and dropped from ConnectionManager.channels when its last
\* subscriber leaves
BroadcastAfterLeave(newChannels) ==
    IF /\ ws_broadcast.channel # 0
       /\ ws_channels[ChannelList[ws_broadcast.channel]] # {}
       /\ newChannels[ChannelList[ws_broadcast.channel]] = {}
    THEN [ws_broadcast EXCEPT !.stale = TRUE]
    ELSE ws_broadcast

\* ConnectionManager.connect: a new connection id
connect(c) ==
    /\ ws_connections[c] = "unused"
    /\ ws_connections' = [ws_connections EXCEPT ![c] = "open"]
    /\ UNCHANGED <<ws_channels, ws_inbox, ws_events, ws_broadcast>>
    /\ UNCHANGED outsideWs

\* ConnectionManager.disconnect: the connection leaves all its channels
disconnect(c) ==
    /\ ws_connections[c] = "open"
    /\ ws_connections' = [ws_connections EXCEPT ![c] = "closed"]
    /\ LET newChannels == [ch \in Channels |-> ws_channels[ch] \ {c}]
       IN /\ ws_channels' = newChannels
          /\ ws_broadcast' = BroadcastAfterLeave(newChannels)
    /\ UNCHANGED <<ws_inbox, ws_events>>
    /\ UNCHANGED outsideWs

\* ConnectionManager.subscribe_to_channel
subscribe_to_channel(c, ch) ==
    /\ ws_connections[c] = "open"
    /\ c \notin ws_channels[ch]
    /\ ws_channels' = [ws_channels EXCEPT ![ch] = @ \cup {c}]
    /\ UNCHANGED <<ws_connections, ws_inbox, ws_events, ws_broadcast>>
    /\ UNCHANGED outsideWs

\* ConnectionManager.unsubscribe_from_channel
unsubscribe_from_channel(c, ch) ==
    /\ ws_connections[c] = "open"
    /\ c \in ws_channels[ch]
    /\ LET newChannels == [ws_channels EXCEPT ![ch] = @ \ {c}]
       IN /\ ws_channels' = newChannels
          /\ ws_broadcast' = BroadcastAfterLeave(newChannels)
    /\ UNCHANGED <<ws_connections, ws_inbox, ws_events>>
    /\ UNCHANGED outsideWs

NoSend == [kind |-> "done", channel |-> 0, conn |-> 0, used |-> 0]
SendError == [kind |-> "error", channel |-> 0, conn |-> 0, used |-> 0]

RECURSIVE EnterChannel(_)
\* handle_progress_event goes on to channel number i: broadcast_to_channel
\* skips a channel that is not in ConnectionManager.channels, and otherwise
\* starts to iterate its set
EnterChannel(i) ==
    IF i > Len(ChannelList) THEN NoSend
    ELSE LET subs == ws_channels[ChannelList[i]]
         IN IF subs = {} THEN EnterChannel(i + 1)
            ELSE [kind |-> "send", channel |-> i,
                  conn |-> CHOOSE c \in subs : \A d \in subs : c <= d,
                  used |-> Cardinality(subs)]

\* what handle_progress_event does when it runs on from the state b up to its
\* next send_text: the for statement of broadcast_to_channel asks the set
\* iterator for the next subscriber, which raises RuntimeError when the set
\* has changed its size since the iteration began; the error leaves
\* broadcast_to_channel and is caught and logged in handle_progress_event
NextSend(b) ==
    IF b.channel = 0 THEN EnterChannel(1)
    ELSE LET subs == ws_channels[ChannelList[b.channel]]
             rest == {c \in subs : c > b.pos}
         IN IF b.stale \/ Cardinality(subs) # b.used THEN SendError
            ELSE IF rest # {}
            THEN [kind |-> "send", channel |-> b.channel,
                  conn |-> CHOOSE c \in rest : \A d \in rest : c <= d,
                  used |-> b.used]
            ELSE EnterChannel(b.channel + 1)

\* the coroutine of event k runs from b to its next send_text, or to its end
RunBroadcast(k, b) ==
    LET s == NextSend(b)
    IN IF s.kind = "send"
       THEN /\ ws_inbox' = [ws_inbox EXCEPT ![s.conn] = Append(@, k)]
            /\ ws_broadcast' = [event |-> k, channel |-> s.channel,
                                pos |-> s.conn, used |-> s.used, stale |-> FALSE]
       ELSE /\ ws_inbox' = ws_inbox
            /\ ws_broadcast' = NoBroadcast

\* broadcast_system_event / broadcast_vault_event / broadcast_job_event:
\* handle_progress_event is awaited and runs up to its first send_text
handle_progress_event ==
    /\ Len(ws_events) < MaxWsEvents
    /\ ws_broadcast = NoBroadcast
    /\ ws_events' = Append(ws_events, [audience |-> Audience, awaited |-> TRUE])
    /\ RunBroadcast(Len(ws_events) + 1, NoBroadcast)
    /\ UNCHANGED <<ws_connections, ws_channels>>
    /\ UNCHANGED outsideWs

\* a send_text has returned and the broadcast runs on
broadcast_to_channel ==
    /\ ws_broadcast # NoBroadcast
    /\ RunBroadcast(ws_broadcast.event, ws_broadcast)
    /\ UNCHANGED <<ws_connections, ws_channels, ws_events>>
    /\ UNCHANGED outsideWs

\* VaultService._notify_progress during index_vault: every progress callback
\* is called like a function; the callback that websocket_endpoint registers
\* is the coroutine function handle_progress_event, so the call only makes a
\* coroutine object that nothing awaits
_notify_progress ==
    /\ Len(ws_events) < MaxWsEvents
    /\ ws_events' = Append(ws_events, [audience |-> Audience, awaited |-> FALSE])
    /\ UNCHANGED <<ws_connections, ws_channels, ws_inbox, ws_broadcast>>
    /\ UNCHANGED outsideWs

NextChannels ==
    \/ \E c \in Conns : connect(c)
    \/ \E c \in Conns : disconnect(c)
    \/ \E c \in Conns, ch \in Channels : subscribe_to_channel(c, ch)
    \/ \E c \in Conns, ch \in Channels : unsubscribe_from_channel(c, ch)
    \/ handle_progress_event
    \/ broadcast_to_channel
    \/ _notify_progress

SpecChannels == Init /\ [][NextChannels]_vars

\* event k was sent to connection c
Delivered(k, c) == \E i \in 1..Len(ws_inbox[c]) : ws_inbox[c][i] = k

\* C19: once the broadcast of a published event is over, the event has been
\* sent to every connection that was subscribed to one of its channels when
\* it was published and that is still connected.
C19_DeliveredToEverySubscriber ==
    \A k \in 1..Len(ws_events) :
        ws_broadcast.event # k =>
            \A c \in ws_events[k].audience :
                ws_connections[c] = "open" => Delivered(k, c)

\* the same for the events whose handler is awaited
C19_AwaitedDeliveredToEverySubscriber ==
    \A k \in 1..Len(ws_events) :
        (ws_events[k].awaited /\ ws_broadcast.event # k) =>
            \A c \in ws_events[k].audience :
                ws_connections[c] = "open" => Delivered(k, c)

----------------------------------------------------------------------------
(* The progress websockets of api/routes/collections_ws.py and the         *)
(* progress updates that the handlers publish through                      *)
(* JobQueue.update_job_progress. All jobs here are jobs of one collection, *)
(* whose list of websockets is cws_connections.                            *)

\* a send_to_collection that iterates the list holds on to that list, which
\* is dropped from active_connections when its last websocket leaves
SendsAfterLeave(newList) ==
    IF cws_connections # <<>> /\ newList = <<>>
    THEN {[s EXCEPT !.stale = TRUE] : s \in cws_sends}
    ELSE cws_sends

\* s without its i-th element
RemoveAt(s, i) == [k \in 1..(Len(s) - 1) |-> IF k < i THEN s[k] ELSE s[k + 1]]

\* ConnectionManager.connect of collections_ws.py
CollectionConnect(w) ==
    /\ cws_sockets[w] = "unused"
    /\ cws_sockets' = [cws_sockets EXCEPT ![w] = "open"]
    /\ cws_connections' = Append(cws_connections, w)
    /\ UNCHANGED <<cws_inbox, cws_sends, cws_published>>
    /\ UNCHANGED outsideCws

\* ConnectionManager.disconnect of collections_ws.py
CollectionDisconnect(w) ==
    /\ cws_sockets[w] \in {"open", "stalled"}
    /\ cws_sockets' = [cws_sockets EXCEPT ![w] = "closed"]
    /\ LET i == CHOOSE k \in 1..Len(cws_connections) : cws_connections[k] = w
           newList == RemoveAt(cws_connections, i)
       IN /\ cws_connections' = newList
          /\ cws_sends' = SendsAfterLeave(newList)
    /\ UNCHANGED <<cws_inbox, cws_published>>
    /\ UNCHANGED outsideCws

\* task t is suspended in a send_text of its progress update
Sending(t) == \E s \in cws_sends : s.job = t.job /\ s.run = t.run

\* send_to_collection runs from the send s (idx: the websockets the list
\* iterator has passed, to: the websocket of the last send_text) to its next
\* send_text, or to its end
RunSend(s) ==
    IF ~s.stale /\ s.idx < Len(cws_connections)
    THEN /\ cws_inbox' = [cws_inbox EXCEPT
                 ![cws_connections[s.idx + 1]] = Append(@, s.msg)]
         /\ cws_sends' = (cws_sends \ {s}) \cup
                {[s EXCEPT !.idx = s.idx + 1, !.to = cws_connections[s.idx + 1]]}
    ELSE /\ cws_inbox' = cws_inbox
         /\ cws_sends' = cws_sends \ {s}

\* a handler calls update_job_progress(job.id, progress_data): the row is
\* written, and _broadcast_progress_update awaits send_to_collection, which
\* runs up to its first send_text
PublishProgress(t) ==
    /\ t.pc \in {"start", "poll"}
    /\ CanRun(t)
    /\ ~Sending(t)
    /\ Len(cws_published) < MaxMessages
    /\ jobs' = update_job_progress(t.job)
    /\ tasks' = (tasks \ {t}) \cup {[t EXCEPT !.pc = "poll"]}
    /\ cws_published' = Append(cws_published, <<t.job, t.run>>)
    /\ IF InMemory(t.job)
       THEN RunSend([job |-> t.job, run |-> t.run, msg |-> Len(cws_published) + 1,
                     idx |-> 0, to |-> 0, stale |-> FALSE])
       ELSE UNCHANGED <<cws_inbox, cws_sends>>
    /\ UNCHANGED <<cws_sockets, cws_connections>>
    /\ UNCHANGED <<active_jobs, running_tasks, dispatches, pauses, processor>>
    /\ UNCHANGED <<managerVars, watchVars, wsVars, runVars, searchVars,
                   chunkVars, crashVars, incVars, trackVars, sizeVars,
                   scanVars, stopVars, idVars>>

\* a send_text has returned, which it does not while the client of the
\* websocket has stopped reading, and send_to_collection runs on
send_to_collection(s) ==
    /\ cws_sockets[s.to] # "stalled"
    /\ RunSend(s)
    /\ UNCHANGED <<cws_sockets, cws_connections, cws_published>>
    /\ UNCHANGED outsideCws

\* a handler that is not in the middle of a progress update returns
HandlerReturnAfterProgress(t) ==
    /\ t.pc = "poll"
    /\ ~Sending(t)
    /\ HandlerReturn(t)

CreateProgressJob ==
    /\ Len(jobs) < MaxProgressJobs
    /\ CreateJob

NextProgress ==
    \/ CreateProgressJob
    \/ _process_next_jobs
    \/ \E w \in Sockets : CollectionConnect(w)
    \/ \E w \in Sockets : CollectionDisconnect(w)
    \/ \E t \in tasks : PublishProgress(t)
    \/ \E s \in cws_sends : send_to_collection(s)
    \/ \E t \in tasks : HandlerReturnAfterProgress(t)

SpecProgress == Init /\ [][NextProgress]_vars

\* C20: every websocket receives the progress updates of the collection in
\* the order of their publication.
C20_PublicationOrder ==
    \A w \in Sockets : \A i, k \in 1..Len(cws_inbox[w]) :
        i < k => cws_inbox[w][i] < cws_inbox[w][k]

\* the order of two progress updates is kept when one task published both
C20_OrderOfOnePublisher ==
    \A w \in Sockets : \A i, k \in 1..Len(cws_inbox[w]) :
        (i < k /\ cws_published[cws_inbox[w][i]] = cws_published[cws_inbox[w][k]])
            => cws_inbox[w][i] < cws_inbox[w][k]

\* a websocket has received two progress updates of one task
C20_OnePublisherWitness ==
    \E w \in Sockets : \E i, k \in 1..Len(cws_inbox[w]) :
        i < k /\ cws_published[cws_inbox[w][i]] = cws_published[cws_inbox[w][k]]

----------------------------------------------------------------------------
(* One run of a create or reindex handler and the progress_percentage      *)
(* values of its progress updates.  Percentages are counted in tenths of a *)
(* percent; a quotient that is no multiple of a tenth is rounded down.     *)

Min(a, b) == IF a <= b THEN a ELSE b

\* _process_vault_indexing: (files_processed / total_files) * 100
vault_progress_percent(files_processed, total_files) ==
    (1000 * files_processed) \div total_files

\* a create handler that publishes the percentage of the vault run as it is
create_progress_unscaled(progress_percent) == progress_percent

\* _handle_create_collection_job while the vault run is queued or running:
\* min(90.0, 20.0 + progress_percent * 0.7)
create_progress(progress_percent) ==
    Min(900, 200 + (7 * progress_percent) \div 10)

\* _handle_reindex_collection_job while the vault run is queued or running
reindex_progress(progress_percent) == progress_percent

\* update_job_progress(job.id, {..., "progress_percentage": percent})
Publish(percent) == run_published' = Append(run_published, percent)

\* a handler starts: the create handler publishes 0 and 20 and calls
\* index_vault, the reindex handler publishes 0 and calls index_vault; the
\* first pass of the monitoring loop finds the new IndexingJob queued and
\* publishes the percentage computed from it; then the handler sleeps
RunHandlerStart(job_type) ==
    /\ run_handler.pc \in {"idle", "done", "failed"}
    /\ run_handler' = [job_type |-> job_type, pc |-> "poll"]
    /\ run_vault' = NoVaultJob
    /\ run_published' =
           IF job_type = CREATE_JOB
           THEN <<0, 200, create_progress(NoVaultJob.progress_percent)>>
           ELSE <<0, reindex_progress(NoVaultJob.progress_percent)>>
    /\ UNCHANGED outsideRun

\* _process_vault_indexing starts: it counts the markdown files and fails
\* when there are none
RunVaultScan(total) ==
    /\ run_handler.pc = "poll"
    /\ run_vault.status = "queued"
    /\ run_vault' = IF total = 0
                    THEN [run_vault EXCEPT !.status = "failed"]
                    ELSE [run_vault EXCEPT !.status = "running", !.total_files = total]
    /\ UNCHANGED <<run_handler, run_published>>
    /\ UNCHANGED outsideRun

\* the next file of the vault run
RunVaultFile ==
    /\ run_handler.pc = "poll"
    /\ run_vault.status = "running"
    /\ run_vault.files_processed < run_vault.total_files
    /\ run_vault' = [run_vault EXCEPT
           !.files_processed = @ + 1,
           !.progress_percent =
               vault_progress_percent(run_vault.files_processed + 1,
                                      run_vault.total_files)]
    /\ UNCHANGED <<run_handler, run_published>>
    /\ UNCHANGED outsideRun

\* the vault run ends after its last file
RunVaultCompleted ==
    /\ run_handler.pc = "poll"
    /\ run_vault.status = "running"
    /\ run_vault.files_processed = run_vault.total_files
    /\ run_vault' = [run_vault EXCEPT !.status = "completed",
                                      !.progress_percent = 1000]
    /\ UNCHANGED <<run_handler, run_published>>
    /\ UNCHANGED outsideRun

\* a batch of the vault run raises
RunVaultFailed ==
    /\ run_handler.pc = "poll"
    /\ run_vault.status = "running"
    /\ run_vault' = [run_vault EXCEPT !.status = "failed"]
    /\ UNCHANGED <<run_handler, run_published>>
    /\ UNCHANGED outsideRun

\* one pass of the monitoring loop after a sleep
RunPoll ==
    /\ run_handler.pc = "poll"
    /\ UNCHANGED run_vault
    /\ IF run_vault.status = "completed"
       THEN /\ Publish(1000)
            /\ run_handler' = [run_handler EXCEPT !.pc = "done"]
       ELSE IF run_vault.status = "failed"
       THEN /\ UNCHANGED run_published
            /\ run_handler' = [run_handler EXCEPT !.pc = "failed"]
       ELSE /\ Len(run_published) < MaxPublished
            /\ Publish(IF run_handler.job_type = CREATE_JOB
                       THEN create_progress(run_vault.progress_percent)
                       ELSE reindex_progress(run_vault.progress_percent))
            /\ UNCHANGED run_handler
    /\ UNCHANGED outsideRun

NextRun ==
    \/ \E job_type \in {CREATE_JOB, REINDEX_JOB} : RunHandlerStart(job_type)
    \/ \E total \in 0..MaxFiles : RunVaultScan(total)
    \/ RunVaultFile
    \/ RunVaultCompleted
    \/ RunVaultFailed
    \/ RunPoll

SpecRun == Init /\ [][NextRun]_vars

\* C21: within one run of a handler, the percentages of the progress updates
\* it publishes never decrease.
C21_PercentNonDecreasing ==
    \A i, k \in 1..Len(run_published) :
        i < k => run_published[i] <= run_published[k]

\* a create handler has published 0, 20, a percentage computed from a vault
\* run that is half-way through its files, and 100
C21_Witness ==
    /\ run_handler = [job_type |-> CREATE_JOB, pc |-> "done"]
    /\ \E i \in 1..Len(run_published) :
           run_published[i] > 200 /\ run_published[i] < 900
    /\ run_published[Len(run_published)] = 1000

----------------------------------------------------------------------------
(* Progress websockets whose client stops reading *)

\* the client of websocket w stops reading and the buffers of its connection
\* fill up: a send_text to w no longer returns
CollectionStall(w) ==
    /\ cws_sockets[w] = "open"
    /\ cws_sockets' = [cws_sockets EXCEPT ![w] = "stalled"]
    /\ UNCHANGED <<cws_connections, cws_inbox, cws_sends, cws_published>>
    /\ UNCHANGED outsideCws

\* the client reads again
CollectionDrain(w) ==
    /\ cws_sockets[w] = "stalled"
    /\ cws_sockets' = [cws_sockets EXCEPT ![w] = "open"]
    /\ UNCHANGED <<cws_connections, cws_inbox, cws_sends, cws_published>>
    /\ UNCHANGED outsideCws

NextStall ==
    \/ NextProgress
    \/ \E w \in Sockets : CollectionStall(w)
    \/ \E w \in Sockets : CollectionDrain(w)

SpecStall == Init /\ [][NextStall]_vars

\* C22: publishing never blocks on a subscriber: no progress update of a
\* handler is held up in a send to a websocket whose client has stopped
\* reading.
C22_PublisherNeverWaitsOnSubscriber ==
    \A s \in cws_sends : cws_sockets[s.to] # "stalled"

\* what the waiting costs: while the client of the first websocket of the list
\* does not read, a websocket behind it has not received the update
C22_OthersReceiveWhileOneStalls ==
    \A s \in cws_sends : \A i \in 1..Len(cws_connections) :
        (cws_sockets[s.to] = "stalled" /\ cws_sockets[cws_connections[i]] = "open")
            => \E k \in 1..Len(cws_inbox[cws_connections[i]]) :
                   cws_inbox[cws_connections[i]][k] = s.msg

----------------------------------------------------------------------------
(* Search: VaultService.search_vault and CollectionManager.search_collection *)
(* over one namespace and one query.  A document is known by its distance   *)
(* to the query and by whether its tags match the tag filters of the query. *)

\* the documents the namespace holds
Indexed(index) == {d \in Hits : index[d] # NoDocument}

\* collection.query: the n_results nearest documents, nearest first
RECURSIVE Nearest(_, _, _)
Nearest(index, docs, n_results) ==
    IF n_results = 0 \/ docs = {} THEN <<>>
    ELSE LET d == CHOOSE x \in docs : \A y \in docs :
                      \/ index[x].distance < index[y].distance
                      \/ index[x].distance = index[y].distance /\ x <= y
         IN  <<d>> \o Nearest(index, docs \ {d}, n_results - 1)

query(index, n_results) == Nearest(index, Indexed(index), n_results)

meets_threshold_inverted(similarity, similarity_threshold) ==
    similarity <= similarity_threshold

\* similarity_score >= similarity_threshold
meets_threshold(similarity, similarity_threshold) ==
    similarity >= similarity_threshold

\* list.sort(key=similarity_score, reverse=True): stable, by insertion
RECURSIVE InsertBySimilarity(_, _)
InsertBySimilarity(sorted, r) ==
    IF sorted = <<>> THEN <<r>>
    ELSE IF Head(sorted).similarity_score >= r.similarity_score
         THEN <<Head(sorted)>> \o InsertBySimilarity(Tail(sorted), r)
         ELSE <<r>> \o sorted

RECURSIVE SortBySimilarity(_)
SortBySimilarity(results) ==
    IF results = <<>> THEN <<>>
    ELSE InsertBySimilarity(SortBySimilarity(SubSeq(results, 1, Len(results) - 1)),
                            results[Len(results)])

\* search_vault: the results list of its answer
search_vault(index, limit, similarity_threshold, tag_filters) ==
    LET found == query(index, Min(limit * 2, 100))
        result(i) == [id |-> found[i],
                      similarity_score |-> 10 - index[found[i]].distance]
        keep(i) == /\ meets_threshold(result(i).similarity_score,
                                      similarity_threshold)
                   /\ tag_filters => index[found[i]].tagged
        processed_results ==
            SortBySimilarity(SelectSeq([i \in 1..Len(found) |-> IF keep(i) THEN result(i) ELSE NoDocument],
                                       LAMBDA r : r # NoDocument))
    IN  SubSeq(processed_results, 1, Min(limit, Len(processed_results)))

\* search_collection: the results list of its answer
search_collection(index, limit, similarity_threshold) ==
    LET found == query(index, limit)
        similarity(i) == IF index[found[i]].distance <= 10
                         THEN 10 - index[found[i]].distance ELSE 0
        result(i) == [id |-> found[i], similarity_score |-> similarity(i),
                      rank |-> i]
    IN  SelectSeq([i \in 1..Len(found) |->
                      IF meets_threshold(similarity(i), similarity_threshold)
                      THEN result(i) ELSE NoDocument],
                  LAMBDA r : r # NoDocument)

\* a document is added to the namespace
SearchAddDocument(d, distance, tagged) ==
    /\ search_index[d] = NoDocument
    /\ search_index' = [search_index EXCEPT
                            ![d] = [distance |-> distance, tagged |-> tagged]]
    /\ search_prev' = NoSearch
    /\ search_last' = NoSearch
    /\ UNCHANGED outsideSearch

\* GET /search, POST /search
SearchVault(limit, similarity_threshold, tag_filters) ==
    /\ search_prev' = search_last
    /\ search_last' =
           [kind |-> "vault", limit |-> limit, tag_filters |-> tag_filters,
            similarity_threshold |-> similarity_threshold,
            results |-> search_vault(search_index, limit, similarity_threshold,
                                     tag_filters)]
    /\ UNCHANGED <<search_index, outsideSearch>>

\* POST /collections/{collection_name}/search
SearchCollection(limit, similarity_threshold) ==
    /\ search_prev' = search_last
    /\ search_last' =
           [kind |-> "collection", limit |-> limit, tag_filters |-> FALSE,
            similarity_threshold |-> similarity_threshold,
            results |-> search_collection(search_index, limit,
                                          similarity_threshold)]
    /\ UNCHANGED <<search_index, outsideSearch>>

NextSearch ==
    \/ \E d \in Hits, distance \in Distances, tagged \in BOOLEAN :
           SearchAddDocument(d, distance, tagged)
    \/ \E limit \in 1..MaxLimit, t \in Thresholds, tag_filters \in BOOLEAN :
           SearchVault(limit, t, tag_filters)
    \/ \E limit \in 1..MaxLimit, t \in Thresholds : SearchCollection(limit, t)

SpecSearch == Init /\ [][NextSearch]_vars

ResultIds(search) == {search.results[i].id : i \in 1..Len(search.results)}

\* the last two searches are the same search but for a threshold that was raised
ThresholdRaised ==
    /\ search_prev # NoSearch
    /\ search_last.kind = search_prev.kind
    /\ search_last.limit = search_prev.limit
    /\ search_last.tag_filters = search_prev.tag_filters
    /\ search_last.similarity_threshold >= search_prev.similarity_threshold

\* C23: for a fixed query, limit and index contents, a search with a higher
\* similarity threshold returns no result that the search with the lower
\* threshold did not return
C23_RaisingThresholdAddsNothing ==
    ThresholdRaised => ResultIds(search_last) \subseteq ResultIds(search_prev)

\* a raised threshold dropped a result of a search that was cut to its limit
C23_Witness ==
    /\ ThresholdRaised
    /\ search_last.kind = "vault"
    /\ Len(search_prev.results) = search_prev.limit
    /\ search_last.results # <<>>
    /\ ResultIds(search_last) # ResultIds(search_prev)

----------------------------------------------------------------------------
(* Chunk ids: TextChunker.chunk_text and the doc_id of every chunk in       *)
(* _process_vault_indexing and _process_file_updates.  A text is a sequence *)
(* of letters and newlines; it holds no code block and no sentence ending,  *)
(* and it is shorter than the 200 characters that _find_best_break_point    *)
(* looks back.  Positions count from 0 as in the code.                      *)

Stems == {"note", "todo"}
Characters == {"a", "\n"}
Texts == UNION {[1..n -> Characters] : n \in 0..MaxText}
ChunkSizes == {2, 3}
Overlaps == {0, 1}

Max(a, b) == IF a >= b THEN a ELSE b

\* text[a:b]
Slice(text, a, b) == SubSeq(text, a + 1, b)

\* str.strip()
RECURSIVE strip(_)
strip(text) ==
    IF text = <<>> THEN text
    ELSE IF Head(text) = "\n" THEN strip(Tail(text))
    ELSE IF text[Len(text)] = "\n" THEN strip(SubSeq(text, 1, Len(text) - 1))
    ELSE text

\* _find_best_break_point: the end of the last paragraph break, else the
\* end of the last line, else max_end_pos
_find_best_break_point(text, start_pos, max_end_pos) ==
    LET search_start == Max(start_pos, max_end_pos - 200)
        search_text == Slice(text, search_start, max_end_pos)
        paragraph_ends ==
            {e \in 2..Len(search_text) :
                /\ search_text[e] = "\n"
                /\ search_text[e - 1] = "\n"
                /\ e = Len(search_text) \/ search_text[e + 1] # "\n"}
        newlines == {e \in 1..Len(search_text) : search_text[e] = "\n"}
        Last(S) == CHOOSE e \in S : \A f \in S : f <= e
    IN  IF paragraph_ends # {} THEN search_start + Last(paragraph_ends)
        ELSE IF newlines # {} THEN search_start + Last(newlines)
        ELSE max_end_pos

\* _extract_semantic_chunk: <<chunk_text, actual_end_pos>>
_extract_semantic_chunk(text, start_pos, max_end_pos) ==
    IF start_pos >= Len(text) THEN <<(<<>>), start_pos>>
    ELSE IF max_end_pos >= Len(text)
         THEN <<Slice(text, start_pos, Len(text)), Len(text)>>
    ELSE LET best_break == _find_best_break_point(text, start_pos, max_end_pos)
         IN  <<Slice(text, start_pos, best_break), best_break>>

\* the while loop of chunk_text: the number of chunks it appends
RECURSIVE ChunkLoop(_, _, _, _, _)
ChunkLoop(text, chunk_size, overlap, start_pos, chunk_index) ==
    IF start_pos >= Len(text) THEN chunk_index
    ELSE LET end_pos == Min(start_pos + chunk_size, Len(text))
             extracted == _extract_semantic_chunk(text, start_pos, end_pos)
             actual_end_pos == extracted[2]
             appended == IF strip(extracted[1]) # <<>>
                         THEN chunk_index + 1 ELSE chunk_index
             overlapped == Max(actual_end_pos - overlap, start_pos + 1)
             next_pos == IF overlapped >= actual_end_pos
                         THEN actual_end_pos ELSE overlapped
         IN  IF actual_end_pos >= Len(text) THEN appended
             ELSE ChunkLoop(text, chunk_size, overlap, next_pos, appended)

\* len(chunk_text(text))
chunk_text(text, chunk_size, overlap) ==
    IF strip(text) = <<>> THEN 0
    ELSE IF Len(strip(text)) <= chunk_size THEN 1
    ELSE ChunkLoop(strip(text), chunk_size, overlap, 0, 0)

index_doc_id_of_job(job, stem, chunk_idx) == <<job.job_id, stem, chunk_idx>>

\* doc_id = f"{job.vault_name}_{file_path.stem}_{chunk_idx}"
index_doc_id(job, stem, chunk_idx) == <<job.vault_name, stem, chunk_idx>>

\* doc_id = f"{vault_name}_{file_path_obj.stem}_{chunk_idx}"
update_doc_id(vault_name, stem, chunk_idx) == <<vault_name, stem, chunk_idx>>

\* for chunk_idx, chunk in enumerate(chunks)
ChunkIndexes(setup) ==
    0..(chunk_text(setup.content, setup.chunk_size, setup.overlap) - 1)

\* the file is written and the chunker is constructed
ChunkSetup(stem, content, chunk_size, overlap) ==
    /\ chunk_setup = NoSetup
    /\ chunk_setup' = [stem |-> stem, content |-> content,
                       chunk_size |-> chunk_size, overlap |-> overlap]
    /\ UNCHANGED <<chunk_runs, outsideChunk>>

\* _process_vault_indexing over the file: the ids it hands to the namespace
ChunkIndexRun ==
    /\ chunk_setup # NoSetup
    /\ Len(chunk_runs) < MaxIndexRuns
    /\ LET job == [job_id |-> Len(chunk_runs) + 1, vault_name |-> WatchedVault]
       IN  chunk_runs' = Append(chunk_runs,
               [kind |-> "index",
                ids |-> {index_doc_id(job, chunk_setup.stem, chunk_idx) :
                            chunk_idx \in ChunkIndexes(chunk_setup)}])
    /\ UNCHANGED <<chunk_setup, outsideChunk>>

\* _process_file_updates over the file: the ids it hands to the namespace
ChunkUpdateRun ==
    /\ chunk_setup # NoSetup
    /\ Len(chunk_runs) < MaxIndexRuns
    /\ chunk_runs' = Append(chunk_runs,
           [kind |-> "update",
            ids |-> {update_doc_id(WatchedVault, chunk_setup.stem, chunk_idx) :
                        chunk_idx \in ChunkIndexes(chunk_setup)}])
    /\ UNCHANGED <<chunk_setup, outsideChunk>>

NextChunk ==
    \/ \E stem \in Stems, content \in Texts, chunk_size \in ChunkSizes,
          overlap \in Overlaps : ChunkSetup(stem, content, chunk_size, overlap)
    \/ ChunkIndexRun
    \/ ChunkUpdateRun

SpecChunk == Init /\ [][NextChunk]_vars

----------------------------------------------------------------------------
(* The process is killed and started again.  jobs.db, the collections      *)
(* table and the directory of the chromadb PersistentClient stay as they   *)
(* are; the objects of the process are gone: active_jobs, running_tasks,   *)
(* the worker tasks with their vault runs, the processor task, the tokens. *)

Crash ==
    /\ restarts < MaxRestarts
    /\ processor
    /\ restarts' = restarts + 1
    /\ interrupted' = interrupted \cup {j \in JobIds : jobs[j].status = RUNNING}
    /\ active_jobs' = [j \in JobIds |-> NoJob]
    /\ running_tasks' = {}
    /\ tasks' = {}
    /\ processor' = FALSE
    /\ tokens' = <<>>
    /\ UNCHANGED <<jobs, dispatches, pauses, collections, chroma>>
    /\ UNCHANGED <<watchVars, wsVars, cwsVars, runVars, searchVars, chunkVars,
                   incVars, trackVars, sizeVars, scanVars, stopVars, idVars>>

\* collections are created and indexed over vaults that hold markdown files,
\* with an embedding service and a store that do not fail; the progress
\* updates of the monitoring loop write what the row already holds
NextCrash ==
    \/ StartQueueProcessor
    \/ \E n \in Names : CreateCollection(n)
    \/ _process_next_jobs
    \/ \E t \in tasks : CreateHandlerStart(t)
    \/ \E t \in tasks : IndexingCompleted(t)
    \/ \E t \in tasks : VaultRunStart(t, TRUE)
    \/ \E t \in tasks, d \in 0..MaxDocs : VaultRunFinish(t, d)
    \/ Crash

SpecCrash == Init /\ [][NextCrash]_vars

\* the processor runs, no handler is at work and no row waits for a slot
QueueIdle ==
    /\ processor
    /\ tasks = {}
    /\ \A j \in JobIds : jobs[j].status \notin {PENDING, QUEUED}

\* C25: an index job that was interrupted by the death of the process is run
\* again by the next process and ends in completed: once the queue of the
\* next process has nothing left to do, the job is completed
C25_InterruptedJobCompletes ==
    QueueIdle => \A j \in interrupted : jobs[j].status = COMPLETED

----------------------------------------------------------------------------
(* Incremental updates of an indexed collection: VaultService.             *)
(* incremental_update with _process_file_deletions and                     *)
(* _process_file_updates, next to the collections row of the vault.        *)

VaultFiles == 1..MaxVaultFiles

\* the files that have chunks in the vault namespace: the vault run indexed
\* the first count files of the vault
IndexedFiles(n) ==
    IF inc_index # NoView THEN inc_index
    ELSE 1..chroma[_sanitize_vault_name(n)].count

\* _process_file_deletions: the chunks of every deleted file that has some
\* are deleted
_process_file_deletions(indexed, deleted) == indexed \ deleted

\* _process_file_updates: the chunks of a changed file replace those it had
_process_file_updates(indexed, changed) == indexed \cup changed

\* incremental_update(vault_name, changes) returns its statistics: the
\* namespace is changed, the collections row is neither read nor written
IncrementalUpdateRun(n, added, modified, deleted) ==
    /\ Len(inc_updates) < MaxUpdates
    /\ NsExists(_sanitize_vault_name(n))
    /\ LET before == IndexedFiles(n)
           kept == _process_file_deletions(before, deleted)
           after == _process_file_updates(kept, added \cup modified)
           stats == [documents_deleted |-> Cardinality(before \cap deleted),
                     documents_added |->
                         Cardinality((added \cup modified) \ kept),
                     documents_updated |->
                         Cardinality((added \cup modified) \cap kept)]
       IN  /\ inc_index' = after
           /\ chroma' = [chroma EXCEPT
                  ![_sanitize_vault_name(n)].count = Cardinality(after)]
           /\ inc_updates' = Append(inc_updates,
                  [added |-> added, modified |-> modified, deleted |-> deleted,
                   stats |-> stats])
    /\ UNCHANGED <<queueVars, collections, tokens>>
    /\ UNCHANGED <<watchVars, wsVars, cwsVars, runVars, searchVars, chunkVars,
                   crashVars, trackVars, sizeVars, scanVars, stopVars,
                   idVars>>

\* what a scan of the vault reports against the files that are indexed
ScanChanges(n) ==
    {c \in [added : SUBSET VaultFiles, modified : SUBSET VaultFiles,
            deleted : SUBSET VaultFiles] :
        /\ c.added \cap IndexedFiles(n) = {}
        /\ c.modified \subseteq IndexedFiles(n)
        /\ c.deleted \subseteq IndexedFiles(n)
        /\ c.modified \cap c.deleted = {}
        /\ c.added \cup c.modified \cup c.deleted # {}}

\* one collection is created and indexed; then its vault changes
NextIncremental ==
    \/ StartQueueProcessor
    \/ CreateCollection(WatchedVault)
    \/ _process_next_jobs
    \/ \E t \in tasks : CreateHandlerStart(t)
    \/ \E t \in tasks : VaultRunStart(t, TRUE)
    \/ \E t \in tasks, d \in 0..MaxVaultFiles : VaultRunFinish(t, d)
    \/ \E t \in tasks : IndexingCompleted(t)
    \/ /\ collections[WatchedVault].status = "active"
       /\ \E c \in ScanChanges(WatchedVault) :
              IncrementalUpdateRun(WatchedVault, c.added, c.modified, c.deleted)

SpecIncremental == Init /\ [][NextIncremental]_vars

\* C26: an incremental update that succeeds changes the document_count of
\* the collection by |added| - |deleted|
C26_CountFollowsUpdate ==
    [][Len(inc_updates') > Len(inc_updates) =>
          LET u == inc_updates'[Len(inc_updates')]
          IN  collections'[WatchedVault].document_count =
                  collections[WatchedVault].document_count
                      + Cardinality(u.added) - Cardinality(u.deleted)]_vars

\* the namespace itself follows the update
C26_NamespaceFollowsUpdate ==
    [][Len(inc_updates') > Len(inc_updates) =>
          LET u == inc_updates'[Len(inc_updates')]
          IN  chroma'[_sanitize_vault_name(WatchedVault)].count =
                  chroma[_sanitize_vault_name(WatchedVault)].count
                      + Cardinality(u.added) - Cardinality(u.deleted)]_vars

----------------------------------------------------------------------------
(* FileChangeTracker (indexer/file_tracker.py) over one vault directory.   *)
(* A file has one of two contents; every file can be read.                 *)

FileContents == {1, 2}

excluded_folders == {".obsidian", ".trash", "templates"}
supported_extensions == {".md", ".txt"}

\* hashlib.md5(content).hexdigest(), first characters
md5 == <<"c4ca4238", "c81e728d">>

\* the files that exist
Present(fs) == {p \in TrackPaths : fs[p] # 0}

_discover_vault_files_everywhere(fs) ==
    {p \in Present(fs) : p.suffix \in supported_extensions}

\* _discover_vault_files: os.walk that does not descend into an excluded
\* directory and keeps the files with a supported suffix
_discover_vault_files(fs) ==
    {p \in Present(fs) :
        /\ \A i \in 1..Len(p.dirs) : p.dirs[i] \notin excluded_folders
        /\ p.suffix \in supported_extensions}

\* _get_file_info
_get_file_info(fs, p) == [size |-> 1, hash |-> md5[fs[p]]]

\* _compare_states
_compare_states(previous_states, current_states) ==
    LET previous_files == DOMAIN previous_states
        current_files == DOMAIN current_states
        common_files == current_files \cap previous_files
    IN  [added |-> current_files \ previous_files,
         modified |-> {p \in common_files :
                          current_states[p].hash # previous_states[p].hash},
         deleted |-> previous_files \ current_files]

\* scan_vault
ScanVault ==
    /\ scans < MaxScans
    /\ LET current_files == _discover_vault_files(vault_fs)
           current_states ==
               [p \in current_files |-> _get_file_info(vault_fs, p)]
       IN  /\ scan_changes' = _compare_states(_file_states, current_states)
           /\ _file_states' = current_states
    /\ scans' = scans + 1
    /\ scan_fs' = vault_fs
    /\ UNCHANGED <<vault_fs, outsideTrack>>

\* a file is created or overwritten
WriteFile(p, content) ==
    /\ vault_fs[p] # content
    /\ vault_fs' = [vault_fs EXCEPT ![p] = content]
    /\ UNCHANGED <<_file_states, scans, scan_fs, scan_changes, outsideTrack>>

\* a file is removed
RemoveFile(p) ==
    /\ vault_fs[p] # 0
    /\ vault_fs' = [vault_fs EXCEPT ![p] = 0]
    /\ UNCHANGED <<_file_states, scans, scan_fs, scan_changes, outsideTrack>>

NextTrack ==
    \/ ScanVault
    \/ \E p \in TrackPaths, content \in FileContents : WriteFile(p, content)
    \/ \E p \in TrackPaths : RemoveFile(p)

SpecTrack == Init /\ [][NextTrack]_vars

\* the trackable files: a supported suffix, no .obsidian or .trash above
Trackable == {p \in TrackPaths :
                 /\ \A i \in 1..Len(p.dirs) : p.dirs[i] \notin {".obsidian", ".trash"}
                 /\ p.suffix \in {".md", ".txt"}}

----------------------------------------------------------------------------
(* The dispatcher over jobs of different priorities *)

Priorities == {0, 1}

\* create_job(job_type, collection_name, data, priority)
CreatePriorityJob(priority) ==
    /\ Len(jobs) < MaxJobs
    /\ create_job(CREATE_JOB, NameList[1], priority)
    /\ UNCHANGED managerVars
    /\ UNCHANGED serviceVars

NextPriority ==
    \/ \E priority \in Priorities : CreatePriorityJob(priority)
    \/ _process_next_jobs
    \/ \E j \in JobIds : PauseJob(j)
    \/ \E j \in JobIds : ResumeJob(j)
    \/ \E t \in tasks : HandlerBegin(t)
    \/ \E t \in tasks : HandlerReturn(t)

SpecPriority == Init /\ [][NextPriority]_vars

\* the jobs for which this step runs _start_job_execution
Started == {j \in JobIds : dispatches'[j] > dispatches[j]}

\* C28: when the dispatcher starts a job, no job that it leaves in pending or
\* queued has a higher priority, or the same priority and an earlier
\* created_at; and one pass starts at most max_concurrent_jobs minus the
\* number of running jobs
C28_DispatchOrder ==
    [][Started # {} =>
          /\ \A j \in Started, k \in JobIds :
                 jobs'[k].status \in {PENDING, QUEUED} =>
                     /\ jobs[k].priority <= jobs[j].priority
                     /\ jobs[k].priority = jobs[j].priority => k > j
          /\ Cardinality(Started) <=
                 max_concurrent_jobs - Cardinality(PersistedRunning)
          /\ Cardinality(Started) <= max_concurrent_jobs - RunningCount]_vars

\* every slot is taken, the job of the higher priority was started though it
\* was created last, and an older job of the lower priority waits
C28_Witness ==
    /\ RunningCount = max_concurrent_jobs
    /\ \E j, k \in JobIds :
          /\ k < j
          /\ jobs[j].priority > jobs[k].priority
          /\ jobs[j].status = RUNNING
          /\ jobs[k].status = PENDING
          /\ dispatches[k] = 0

----------------------------------------------------------------------------
(* What pause_job, resume_job and cancel_job return.  A call that returns  *)
(* False has returned before its first assignment.                         *)

\* pause_job returns True
pause_job_returns(j) == InMemory(j) /\ active_jobs[j].status = RUNNING

\* resume_job returns True
resume_job_returns(j) == InMemory(j) /\ active_jobs[j].status = PAUSED

\* cancel_job returns True
cancel_job_returns(j) == InMemory(j) /\ active_jobs[j].status \notin Terminal

\* C29: pause_job succeeds exactly when the job is running, resume_job
\* exactly when it is paused, cancel_job exactly when the job exists in a
\* status that is not terminal
C29_ControlCallsFollowStatus ==
    \A j \in JobIds :
        /\ pause_job_returns(j) <=> jobs[j].status = RUNNING
        /\ resume_job_returns(j) <=> jobs[j].status = PAUSED
        /\ cancel_job_returns(j) <=> jobs[j].status \notin Terminal

----------------------------------------------------------------------------
\* the worker tasks of job j with the vault runs they started
TasksOf(ts, j) == {t \in ts : t.job = j}

\* C30: while the status of a job is paused its handler does no further
\* work: neither the handler nor its vault run takes a step, so that nothing
\* is published or written to the namespace for the job, and the job does
\* not reach completed or failed
C30_PausedHandlerIdle ==
    [][\A j \in JobIds :
          (jobs[j].status = PAUSED /\ active_jobs[j].status = PAUSED) =>
              /\ jobs'[j].status \notin {COMPLETED, FAILED}
              /\ jobs'[j].status = PAUSED =>
                     TasksOf(tasks', j) = TasksOf(tasks, j)]_vars

----------------------------------------------------------------------------
(* Workers of one job *)

\* the worker tasks (_execute_job) of job j that have not ended and were not
\* cancelled
WorkersOf(j) == {t \in tasks : t.job = j /\ Alive(t)}

\* C31: at any time at most one worker task executes the handler of a job;
\* resume_job of a paused job never makes the dispatcher start a second
\* execution of it.
C31_OneWorkerPerJob ==
    \A j \in JobIds : Cardinality(WorkersOf(j)) <= 1

----------------------------------------------------------------------------
(* The vault run of a cancelled job *)

\* the vault run that the worker t started writes chunks in this step: the
\* namespace it created holds more than before
RunWrites(t) ==
    /\ t \notin tasks'
    /\ chroma'[VaultNs(t)].owner = <<t.job, t.run>>
    /\ chroma'[VaultNs(t)].count > 0
    /\ chroma'[VaultNs(t)] # chroma[VaultNs(t)]

\* C32: once cancel_job has cancelled the worker of a running create or
\* reindex job, the vault run started for that job writes no further chunks
\* to the namespace, and the job's persisted status stays cancelled.
C32_CancelledRunStops ==
    [][/\ \A t \in tasks : t.pc = "dead" => ~RunWrites(t)
       /\ \A j \in JobIds : jobs[j].status = CANCELLED =>
             jobs'[j].status = CANCELLED]_vars

----------------------------------------------------------------------------
(* The error message of a collection *)

\* C33: when an index or reindex job completes for a collection whose row is
\* in stored status error with an error message, the error message of the row
\* is cleared.
C33_CompletionClearsError ==
    [][\A j \in JobIds : IndexCompletes(j) =>
          LET n == jobs[j].collection_name
          IN (RowExists(n) /\ collections[n].status = "error"
                           /\ collections[n].error_message)
                => ~collections'[n].error_message]_vars

----------------------------------------------------------------------------
(* _calculate_collection_size over every answer of the health query *)

Counts == 0..MaxCount
HealthInfos == {HealthRaises} \cup {HealthInfo(c) : c \in Counts}

\* one call of _calculate_collection_size(name, document_count) while the
\* provider answers the health query with health_info
CalculateCollectionSize(health_info, document_count) ==
    /\ size_call' = [document_count |-> document_count,
                     health_info |-> health_info,
                     returned |-> calculate_size(health_info, document_count)]
    /\ UNCHANGED outsideSize

NextSize ==
    \E health_info \in HealthInfos, document_count \in Counts :
        CalculateCollectionSize(health_info, document_count)

SpecSize == Init /\ [][NextSize]_vars

\* C34: _calculate_collection_size(name, n) returns max(n, c) x 2048, where c
\* is the document count that the store reports, and n x 2048 when the health
\* query fails.
C34_SizeFromLargerCount ==
    size_call # NoSizeCall =>
        LET n == size_call.document_count
            c == size_call.health_info.document_count
        IN IF size_call.health_info.raises
           THEN size_call.returned = n * 2048
           ELSE /\ size_call.returned >= n * 2048
                /\ size_call.returned >= c * 2048
                /\ size_call.returned \in {n * 2048, c * 2048}

\* the call of the repository's test: 8 documents, the store reports 10
C34_Witness ==
    /\ size_call # NoSizeCall
    /\ size_call.document_count = 8
    /\ size_call.health_info = HealthInfo(10)
    /\ size_call.returned = 10 * 2048

----------------------------------------------------------------------------
(* FileChangeService: the watched vaults, scan_vault_changes over the one  *)
(* FileChangeTracker of the service, and the periodic scan.  A watched     *)
(* vault is a collection name; its directory exists.                       *)

\* the path of file p of the vault directory of v
AbsPath(v, p) == [vault_path |-> v, rel |-> p]

\* the vault names of vault_configs
Watched == {watch_configs[i].vault_name : i \in 1..Len(watch_configs)}

\* what a scan works on and leaves behind
ScanState ==
    [last_scan_time |-> last_scan_time, tracker_states |-> tracker_states,
     state_files |-> state_files, scanned_at |-> scanned_at,
     scan_report |-> scan_report]

\* FileChangeTracker.load_state: a missing state file leaves _file_states as
\* it is
load_state(file_states, state_file) ==
    IF ~state_file.exists THEN file_states ELSE state_file.file_states

\* scan_vault_changes(vault_name) at time t: load_state, scan_vault,
\* save_state, stats['last_scan_time'] = time.time()
scan_vault_changes(st, v, t) ==
    LET loaded == load_state(st.tracker_states, st.state_files[v])
        current_files == {AbsPath(v, p) : p \in _discover_vault_files(disks[v])}
        current_states ==
            [a \in current_files |-> _get_file_info(disks[v], a.rel)]
        changes == _compare_states(loaded, current_states)
    IN  [last_scan_time |-> t,
         tracker_states |-> current_states,
         state_files |-> [st.state_files EXCEPT ![v] =
                             [exists |-> TRUE, file_states |-> current_states]],
         scanned_at |-> [st.scanned_at EXCEPT ![v] = t],
         scan_report |-> [vault_name |-> v, changes |-> changes]]

\* the variables after a scan
ScanStateBecomes(st) ==
    /\ last_scan_time' = st.last_scan_time
    /\ tracker_states' = st.tracker_states
    /\ state_files' = st.state_files
    /\ scanned_at' = st.scanned_at
    /\ scan_report' = st.scan_report

\* add_vault_watch(vault_name, vault_path, enabled=...)
AddVaultWatch(v, enabled) ==
    /\ v \notin Watched
    /\ watch_configs' = Append(watch_configs,
                               [vault_name |-> v, enabled |-> enabled])
    /\ scanned_at' = [scanned_at EXCEPT ![v] = minutes]
    /\ UNCHANGED <<minutes, last_scan_time, tracker_states, state_files, disks,
                   scan_report>>
    /\ UNCHANGED outsideScan

\* enable_vault_watch(vault_name, enabled) for the i-th configuration
EnableVaultWatch(i, enabled) ==
    /\ watch_configs[i].enabled # enabled
    /\ watch_configs' = [watch_configs EXCEPT ![i].enabled = enabled]
    /\ scanned_at' = [scanned_at EXCEPT ![watch_configs[i].vault_name] = minutes]
    /\ UNCHANGED <<minutes, last_scan_time, tracker_states, state_files, disks,
                   scan_report>>
    /\ UNCHANGED outsideScan

\* scan_vault_changes called from outside the service (the manual scan)
ManualScan(v) ==
    /\ v \in Watched
    /\ ScanStateBecomes(scan_vault_changes(ScanState, v, minutes))
    /\ UNCHANGED <<watch_configs, minutes, disks>>
    /\ UNCHANGED outsideScan

\* the for loop of _periodic_scan from the i-th configuration on, at
\* current_time.  last_scan = self.stats.get('last_scan_time', 0) is None
\* until a scan has been made, since the key is there from __init__ on, and
\* current_time - None raises TypeError outside the inner try: the outer
\* except logs it and the pass is over.
RECURSIVE PeriodicLoop(_, _, _)
PeriodicLoop(st, i, current_time) ==
    IF i > Len(watch_configs) THEN st
    ELSE LET config == watch_configs[i]
         IN IF ~config.enabled THEN PeriodicLoop(st, i + 1, current_time)
            ELSE IF st.last_scan_time = -1 THEN st
            ELSE IF current_time - st.last_scan_time >= check_interval
            THEN PeriodicLoop(
                     scan_vault_changes(st, config.vault_name, current_time),
                     i + 1, current_time)
            ELSE PeriodicLoop(st, i + 1, current_time)

\* one iteration of _periodic_scan: asyncio.sleep(60), then the loop over
\* vault_configs
PeriodicPass ==
    /\ running
    /\ minutes < MaxMinutes
    /\ minutes' = minutes + 1
    /\ ScanStateBecomes(PeriodicLoop(ScanState, 1, minutes + 1))
    /\ UNCHANGED <<watch_configs, disks>>
    /\ UNCHANGED outsideScan

NextPeriodic ==
    \/ StartService
    \/ \E v \in Names, enabled \in BOOLEAN : AddVaultWatch(v, enabled)
    \/ \E i \in 1..Len(watch_configs), enabled \in BOOLEAN :
           EnableVaultWatch(i, enabled)
    \/ \E v \in Names : ManualScan(v)
    \/ PeriodicPass

SpecPeriodic == Init /\ [][NextPeriodic]_vars

\* C35: while the service runs, every enabled watched vault is scanned again
\* within its check_interval (and the minute that _periodic_scan sleeps
\* between two passes) of its last scan, or of the moment it came to be
\* watched, also with several vaults and without any manual scan; a pass of
\* the periodic scan never scans a disabled vault.
C35_PeriodicRescan ==
    /\ [](running =>
            \A i \in 1..Len(watch_configs) :
                watch_configs[i].enabled =>
                    minutes - scanned_at[watch_configs[i].vault_name]
                        <= check_interval + 1)
    /\ [][minutes' > minutes =>
            \A i \in 1..Len(watch_configs) :
                ~watch_configs[i].enabled =>
                    scanned_at'[watch_configs[i].vault_name]
                        = scanned_at[watch_configs[i].vault_name]]_vars

----------------------------------------------------------------------------
(* scan_vault_changes over several watched vaults whose files change *)

\* the file of a vault directory that is written and removed
ScanPaths == {TrackPathList[1]}

\* a file of the directory of vault v is created or overwritten
WriteVaultFile(v, p, content) ==
    /\ disks[v][p] # content
    /\ disks' = [disks EXCEPT ![v][p] = content]
    /\ UNCHANGED <<watch_configs, minutes, last_scan_time, tracker_states,
                   state_files, scanned_at, scan_report>>
    /\ UNCHANGED outsideScan

\* a file of the directory of vault v is removed
RemoveVaultFile(v, p) ==
    /\ disks[v][p] # 0
    /\ disks' = [disks EXCEPT ![v][p] = 0]
    /\ UNCHANGED <<watch_configs, minutes, last_scan_time, tracker_states,
                   state_files, scanned_at, scan_report>>
    /\ UNCHANGED outsideScan

NextScan ==
    \/ \E v \in Names : AddVaultWatch(v, TRUE)
    \/ \E v \in Names : ManualScan(v)
    \/ \E v \in Names, p \in ScanPaths, content \in FileContents :
           WriteVaultFile(v, p, content)
    \/ \E v \in Names, p \in ScanPaths : RemoveVaultFile(v, p)

SpecScan == Init /\ [][NextScan]_vars

\* the files that the last scan_vault_changes call reported
Reported ==
    scan_report.changes.added \cup scan_report.changes.modified
        \cup scan_report.changes.deleted

\* C38: scan_vault_changes(A) reports only files under the path of A: no
\* file of another watched vault is classified as added, modified or
\* deleted, in whatever order the vaults are scanned and whether or not A
\* has a saved state file.
C38_ReportsOwnFilesOnly ==
    \A a \in Reported : a.vault_path = scan_report.vault_name

----------------------------------------------------------------------------
(* The two copies of a job's status *)

\* get_job_status(job_id)["status"] for a job that active_jobs holds
get_job_status(j) == active_jobs[j].status

\* C36: between two queue operations the status that get_job_status returns
\* for a job held in active_jobs is the status persisted in the job's row,
\* under every interleaving of dispatcher passes, worker completion, pause,
\* resume, cancel and update_job_progress.
C36_MemoryMatchesRow ==
    \A j \in JobIds : InMemory(j) => get_job_status(j) = jobs[j].status

----------------------------------------------------------------------------
(* The queue processor stopped and started again *)

\* stop_queue_processor: nothing without a processor task; else
\* _shutdown_event is set and the task is awaited, which ends when it next
\* tests the event, after the sleep that follows its pass
StopQueueProcessor ==
    /\ processor
    /\ _shutdown_event' = TRUE
    /\ processor' = FALSE
    /\ UNCHANGED <<jobs, active_jobs, running_tasks, dispatches, tasks, pauses>>
    /\ UNCHANGED managerVars
    /\ UNCHANGED <<watchVars, wsVars, cwsVars, runVars, searchVars, chunkVars,
                   crashVars, incVars, trackVars, sizeVars, scanVars, idVars>>

\* _queue_processor started while _shutdown_event is set: the while loop is
\* not entered and the task is done
ProcessorExits ==
    /\ processor
    /\ _shutdown_event
    /\ processor' = FALSE
    /\ UNCHANGED <<jobs, active_jobs, running_tasks, dispatches, tasks, pauses>>
    /\ UNCHANGED managerVars
    /\ UNCHANGED serviceVars

CreateStopJob ==
    /\ Len(jobs) < MaxStopJobs
    /\ CreateJob

NextStop ==
    \/ StartQueueProcessor
    \/ StopQueueProcessor
    \/ ProcessorExits
    \/ CreateStopJob
    \/ _process_next_jobs
    \/ \E t \in tasks : HandlerBegin(t)
    \/ \E t \in tasks : HandlerReturn(t)

\* the processor keeps making passes while it runs, a processor task that
\* finds the event set ends, and every handler is run to its end
SpecStopFair ==
    /\ Init /\ [][NextStop]_vars
    /\ WF_vars(_process_next_jobs)
    /\ WF_vars(ProcessorExits)
    /\ WF_vars(\E t \in tasks : HandlerBegin(t))
    /\ WF_vars(\E t \in tasks : HandlerReturn(t))

\* job j exists and waits for the dispatcher
Waits(j) == j \in JobIds /\ jobs[j].status \in {PENDING, QUEUED}

\* C37: once the processor has been stopped and is started again, by
\* start_queue_processor or by create_job, every pending or queued job is
\* eventually dispatched.
C37_DispatchAfterRestart ==
    \A j \in 1..MaxStopJobs :
        (_shutdown_event /\ processor /\ Waits(j)) ~> ~Waits(j)

----------------------------------------------------------------------------
(* The chunk ids of the files of one vault: _process_vault_indexing over    *)
(* vault_path.rglob("*.md") and _process_file_updates over a changed file.  *)

\* the texts of the markdown files: runs of one letter
IdTexts == {[i \in 1..n |-> "a"] : n \in 0..MaxText}

\* a markdown file is written under the vault directory
WriteMarkdown(p, content) ==
    /\ markdown_files[p] # [exists |-> TRUE, content |-> content]
    /\ markdown_files' =
           [markdown_files EXCEPT ![p] = [exists |-> TRUE, content |-> content]]
    /\ UNCHANGED <<all_ids, outsideIds>>

\* for chunk_idx, chunk in enumerate(chunks): the chunk indexes of a file
FileChunks(p, chunk_size, overlap) ==
    0..(chunk_text(markdown_files[p].content, chunk_size, overlap) - 1)

\* _process_vault_indexing: every markdown file of the vault is chunked and
\* every chunk gets its doc_id
IndexMarkdownFiles(chunk_size, overlap) ==
    /\ \E p \in IdPaths : markdown_files[p].exists
    /\ LET job == [job_id |-> 1, vault_name |-> WatchedVault]
       IN  all_ids' =
               { [doc_id |-> index_doc_id(job, x[1].stem, x[2]),
                  file_path |-> x[1], chunk_index |-> x[2]] :
                   x \in UNION { {p} \X FileChunks(p, chunk_size, overlap) :
                       p \in {q \in IdPaths : markdown_files[q].exists} } }
    /\ UNCHANGED <<markdown_files, outsideIds>>

\* _process_file_updates over one changed file: the chunks stored for the
\* file are deleted, the file is chunked again and every chunk gets its doc_id
UpdateMarkdownFile(p, chunk_size, overlap) ==
    /\ markdown_files[p].exists
    /\ all_ids # {}
    /\ all_ids' = {x \in all_ids : x.file_path # p} \cup
           { [doc_id |-> update_doc_id(WatchedVault, p.stem, chunk_idx),
              file_path |-> p, chunk_index |-> chunk_idx] :
               chunk_idx \in FileChunks(p, chunk_size, overlap) }
    /\ UNCHANGED <<markdown_files, outsideIds>>

NextIds ==
    \/ \E p \in IdPaths, content \in IdTexts : WriteMarkdown(p, content)
    \/ \E chunk_size \in ChunkSizes, overlap \in Overlaps :
           IndexMarkdownFiles(chunk_size, overlap)
    \/ \E p \in IdPaths, chunk_size \in ChunkSizes, overlap \in Overlaps :
           UpdateMarkdownFile(p, chunk_size, overlap)

SpecIds == Init /\ [][NextIds]_vars

\* C39: within one collection, the chunks of two different files and two
\* different chunk indices of one file never receive the same chunk id, also
\* when the files have the same base name in different directories
C39_ChunkIdsDistinct ==
    \A x, y \in all_ids :
        x.doc_id = y.doc_id =>
            x.file_path = y.file_path /\ x.chunk_index = y.chunk_index

----------------------------------------------------------------------------
(* Handler executions in progress *)

\* C40: the number of handler executions in progress at the same time, the
\* entries of running_tasks, never exceeds max_concurrent_jobs, also after
\* running jobs were paused or resumed
C40_ExecutionsBounded == Cardinality(running_tasks) <= max_concurrent_jobs

====
